---------------------------- MODULE Spec2Model ----------------------------
(***************************************************************************)
(* A model of the integration layer of mfl-rewrite: the roster projection  *)
(* of the dashboard and league pages, the file-backed CacheManager, the    *)
(* MFLApiClient with the /api/mfl proxy route it talks through, and the    *)
(* AuthProvider session, MFLApiClient.buildUrl, the refresh scripts and     *)
(* overlapping fetch calls on one client.  Each component has its own      *)
(* specification (SpecRoster, SpecCache, SpecStale, SpecTiers, SpecMemo,   *)
(* SpecClient, SpecAuth, SpecUrl, SpecRefresh, SpecCalls, SpecLogout) over *)
(* the shared variable list; a specification leaves the other components'  *)
(* variables alone.                                                        *)
(***************************************************************************)
EXTENDS Integers, Sequences, FiniteSets, TLC

VARIABLES
    \* ---- roster projection (dashboard page, league page, MFLApiClient)
    rosterData,      \* the upstream "rosters" response of the user's franchise
    playerDb,        \* the /data/players.json document the pages fetch
    players,         \* dashboard state: setPlayers(...)
    rosterSections,  \* dashboard state: setRosterSections(...)
    rosterTotals,    \* dashboard state: setRosterTotals(...)
    leagueRoster,    \* league page: the FranchiseRoster built by fetchAllRosters
    apiRoster,       \* MFLApiClient.processRosterData's return value
    rosterDone,      \* which of the three loaders have settled
    dashboardError,  \* dashboard state: setError(...)
    apiThrown,       \* the code of the error fetchRoster rejected with, "" if none
    \* ---- CacheManager
    file,            \* content of <dataDirectory>/players.json
    cache,           \* CacheManager.cache (the memory tier), keyed by file path
    cacheOp,         \* the CacheManager operation that ran last
    cacheRet,        \* what that operation returned or threw
    maxAge,          \* CacheManager.config.maxAge, in seconds
    clock,           \* Math.floor(Date.now() / 1000)
    stale,           \* what the last isCacheStale call returned
    \* ---- MFLApiClient + proxy route
    cookie,          \* MFLApiClient.cookie
    armed,           \* history: token of the last successful login / setCookie
    clientOp,        \* the client operation that ran last
    clientRet,       \* what that operation returned or threw
    sent,            \* the request the proxy issued upstream during that operation
    reqOutcome,      \* what makeRequest returned or threw during that operation
    \* ---- AuthProvider
    user,            \* useState<User | null>
    isLoading,       \* useState(true)
    storage,         \* localStorage[SESSION_STORAGE_KEY]
    apiCookie,       \* mflApi.cookie as driven by the provider
    effectPending,   \* the [user] effect is scheduled and has not run yet
    mounted,         \* the mount effect (loadUserSession) has run
    logins,          \* login() calls awaiting their fetch
    now,             \* Date.now(), in milliseconds
    authOp,          \* the provider operation that ran last
    saveFailed,      \* history: saveUserSession caught a write error for the user
    \* ---- MFLApiClient.buildUrl and the login request
    config,          \* MFLApiClient.config
    urlIn,           \* the arguments of the last buildUrl / login call
    builtUrl,        \* what buildUrl returned
    upstream,        \* the request the proxy put on the wire for that login
    urlOp,           \* which of the two ran last
    \* ---- refresh scripts
    disk,            \* the files of the data directory
    diskBefore,      \* history: the data directory when the last run started
    refreshRun,      \* the script that ran last, what its fetch gave, its exit code
    runs,            \* how many runs there were; also the time of a run
    \* ---- overlapping fetch calls on one MFLApiClient
    calls,           \* the calls awaiting their fetch
    cookie0,         \* history: this.cookie before the first call started
    callOp,          \* the step of a call that ran last
    callRet          \* how the call that settled last ended

rosterVars == <<rosterData, playerDb, players, rosterSections, rosterTotals,
                leagueRoster, apiRoster, rosterDone, dashboardError, apiThrown>>
cacheVars  == <<file, cache, cacheOp, cacheRet, maxAge, clock, stale>>
clientVars == <<cookie, armed, clientOp, clientRet, sent, reqOutcome>>
authVars   == <<user, isLoading, storage, apiCookie, effectPending, mounted,
                logins, now, authOp, saveFailed>>
urlVars    == <<config, urlIn, builtUrl, upstream, urlOp>>
refreshVars == <<disk, diskBefore, refreshRun, runs>>
callVars   == <<calls, cookie0, callOp, callRet>>
moreVars   == <<urlVars, refreshVars, callVars>>
vars == <<rosterVars, cacheVars, clientVars, authVars, moreVars>>

(***************************************************************************)
(* JavaScript values.  undefined is a distinguished atom; a number is a    *)
(* tagged record so that it can sit beside strings in one field.           *)
(***************************************************************************)
Undefined == "<undefined>"
Pending   == "<pending>"

Num(n) == [k |-> "num", v |-> n]
NaN    == [k |-> "nan", v |-> 0]
NoNum  == [k |-> "undefined", v |-> 0]

\* JS truthiness of a string-or-undefined field and of a number-or-undefined one
TruthyStr(s) == s # Undefined /\ s # ""
TruthyNum(x) == x.k = "num" /\ x.v # 0

\* x || 0 for a number-or-undefined x (NaN and undefined are falsy)
OrZero(x) == IF TruthyNum(x) THEN x.v ELSE 0

RECURSIVE SumSeq(_)
SumSeq(s) == IF s = <<>> THEN 0 ELSE Head(s) + SumSeq(Tail(s))

\* Array.prototype.filter / map / some over a sequence
Filter(s, P(_)) == SelectSeq(s, P)
Map(s, F(_))    == [i \in 1..Len(s) |-> F(s[i])]
Some(s, P(_))   == \E i \in 1..Len(s) : P(s[i])

\* number of indices of s holding x
Count(s, x) == Cardinality({i \in 1..Len(s) : s[i] = x})

\* all sequences over S of length at most n
SeqsUpTo(S, n) == UNION {[1..k -> S] : k \in 0..n}

(***************************************************************************)
(* Roster projection                                                       *)
(***************************************************************************)
MaxRoster == 3

\* the decimal strings upstream sends in salary / contractYear, as parsed
\* by parseFloat and parseInt
ParseNumber(s) ==
    CASE s = "0"  -> Num(0)
      [] s = "2"  -> Num(2)
      [] s = "5"  -> Num(5)
      [] s = "7"  -> Num(7)
      [] OTHER    -> NaN

\* a raw roster entry of the upstream response: an id and loose optional fields
RawEntry(id, status, salary, contractYear, contractStatus) ==
    [id |-> id, status |-> status, salary |-> salary,
     contractYear |-> contractYear, contractStatus |-> contractStatus]

RawEntries ==
    { RawEntry("0531", "TAXI_SQUAD", "5", "2", ""),
      RawEntry("9999", Undefined, Undefined, Undefined, Undefined),
      RawEntry("0532", "INJURED_RESERVE", "7", Undefined, "R"),
      RawEntry("0533", "IR", Undefined, Undefined, Undefined),
      RawEntry("0534", "ROSTER", "5", "2", "R"),
      RawEntry("0532", "", "0", "", Undefined) }

\* records of the player directory (the data array of players.json)
PlayerRecord(id, name, position, team) ==
    [id |-> id, name |-> name, position |-> position, team |-> team]

Directories ==
    { <<>>,
      << PlayerRecord("0531", "Example Player", "RB", "BUF") >>,
      << PlayerRecord("0532", "baker", "QB", ""),
         PlayerRecord("0531", "Example Player", "RB", "BUF"),
         PlayerRecord("0534", "Able", "LB", "KC") >>,
      << PlayerRecord("0533", "", "", "DAL"),
         PlayerRecord("0534", "Able", "QB", "KC"),
         PlayerRecord("0532", "baker", "QB", "SF") >> }

\* Array.isArray(x) ? x : [x] -- upstream sends one object for a single element
AsArray(x) == IF x.shape = "array" THEN x.val ELSE <<x.val>>

\* Array.prototype.find by id: the index of the first element with the id,
\* 0 standing for undefined
FindById(db, id) ==
    IF \E i \in 1..Len(db) : db[i].id = id
    THEN CHOOSE i \in 1..Len(db) :
            /\ db[i].id = id
            /\ \A j \in 1..(i-1) : db[j].id # id
    ELSE 0

\* playerInfo?.field || fallback
FieldOr(db, i, f, fallback) ==
    IF i # 0 /\ TruthyStr(db[i][f]) THEN db[i][f] ELSE fallback

\* a status rule with a fourth outcome for a missing status
BenchForOther(status) ==
    IF status = "TAXI_SQUAD" THEN "taxi"
    ELSE IF status = "INJURED_RESERVE" \/ status = "IR" THEN "ir"
    ELSE IF status = Undefined THEN "bench"
    ELSE "active"

\* the roster status rule of the dashboard and league pages
PageRosterStatus(status) ==
    IF status = "TAXI_SQUAD" THEN "taxi"
    ELSE IF status = "INJURED_RESERVE" \/ status = "IR" THEN "ir"
    ELSE "active"

\* the three optional fields every projection copies the same way
ProjSalary(e) ==
    IF TruthyStr(e.salary) THEN ParseNumber(e.salary) ELSE NoNum
ProjContractYears(e) ==
    IF TruthyStr(e.contractYear) /\ e.contractYear # ""
    THEN ParseNumber(e.contractYear) ELSE NoNum
ProjContractStatus(e) ==
    IF TruthyStr(e.contractStatus) /\ e.contractStatus # ""
    THEN e.contractStatus ELSE Undefined

\* the object the pages' rosterPlayers.map callback returns
PageProject(e, db) ==
    LET i == FindById(db, e.id) IN
    [id             |-> e.id,
     name           |-> FieldOr(db, i, "name", "Unknown Player"),
     position       |-> FieldOr(db, i, "position", "UNK"),
     team           |-> FieldOr(db, i, "team", "FA"),
     status         |-> "active",
     rosterStatus   |-> PageRosterStatus(e.status),
     salary         |-> ProjSalary(e),
     contractYears  |-> ProjContractYears(e),
     contractStatus |-> ProjContractStatus(e)]

\* a projection that skips the entries the directory does not know
DropUnmatched(raw, db) ==
    LET known == SelectSeq(raw, LAMBDA e : FindById(db, e.id) # 0)
    IN  [i \in 1..Len(known) |-> PageProject(known[i], db)]

\* rosterPlayers.map(...): one projected player per raw entry, in order
ProcessedPlayers(raw, db) ==
    [i \in 1..Len(raw) |-> PageProject(raw[i], db)]
\* positionOrder.indexOf(position), with 999 for -1
positionOrder == <<"QB", "RB", "WR", "TE", "K", "DEF">>
PosKey(position) ==
    IF \E i \in 1..Len(positionOrder) : positionOrder[i] = position
    THEN (CHOOSE i \in 1..Len(positionOrder) : positionOrder[i] = position) - 1
    ELSE 999

\* String.prototype.localeCompare on the names in use: the collation order
\* ignores case before it looks at it, so "baker" sorts between "Able" and
\* "Example Player"
CollationOrder == <<"Able", "baker", "Example Player", "Unknown Player">>
LocaleCompare(a, b) ==
    LET rank(n) == CHOOSE i \in 1..Len(CollationOrder) : CollationOrder[i] = n
    IN  rank(a) - rank(b)

\* a comparator that looks at the names only
NameOnly(a, b) == LocaleCompare(a.name, b.name)

\* the comparator handed to players.sort
ComparePlayers(a, b) ==
    IF PosKey(a.position) # PosKey(b.position)
    THEN PosKey(a.position) - PosKey(b.position)
    ELSE LocaleCompare(a.name, b.name)

\* Array.prototype.sort is stable: x goes behind everything not greater than it
RECURSIVE InsertStable(_, _)
InsertStable(sorted, x) ==
    IF sorted = <<>> THEN <<x>>
    ELSE IF ComparePlayers(Head(sorted), x) <= 0
         THEN <<Head(sorted)>> \o InsertStable(Tail(sorted), x)
         ELSE <<x>> \o sorted

RECURSIVE SortFrom(_, _)
SortFrom(sorted, rest) ==
    IF rest = <<>> THEN sorted
    ELSE SortFrom(InsertStable(sorted, Head(rest)), Tail(rest))

sortByPosition(ps) == SortFrom(<<>>, ps)

\* a grouping that puts every player in every bucket
WholeRoster(ps, bucket) == ps

\* the three filters that group the projected players
BucketOf(ps, bucket) == SelectSeq(ps, LAMBDA p : p.rosterStatus = bucket)

\* league type detection and totals, over a given list of players
HasContracts(ps) ==
    \E i \in 1..Len(ps) :
        TruthyNum(ps[i].contractYears) \/ TruthyStr(ps[i].contractStatus)
HasSalaries(ps) == \E i \in 1..Len(ps) : TruthyNum(ps[i].salary)
TotalContractYears(ps) ==
    SumSeq([i \in 1..Len(ps) |-> OrZero(ps[i].contractYears)])
TotalSalary(ps) == SumSeq([i \in 1..Len(ps) |-> OrZero(ps[i].salary)])

\* the upstream player field: absent, one object, or an array
NoPlayerField     == [shape |-> "undefined", val |-> <<>>]
OnePlayer(e)      == [shape |-> "object", val |-> e]
PlayerArray(es)   == [shape |-> "array", val |-> es]
PlayerFields ==
    {NoPlayerField} \cup {OnePlayer(e) : e \in RawEntries}
        \cup {PlayerArray(es) : es \in SeqsUpTo(RawEntries, MaxRoster)}

\* the rosters response as the loaders see it: HTTP failure, no rosters
\* element, the franchise not among the franchises, or the franchise found
RosterResponse(ok, rosters, franchise, player) ==
    [ok |-> ok, rosters |-> rosters, franchise |-> franchise, player |-> player]
RosterResponses ==
    { RosterResponse(FALSE, FALSE, FALSE, NoPlayerField),
      RosterResponse(TRUE, FALSE, FALSE, NoPlayerField),
      RosterResponse(TRUE, TRUE, FALSE, NoPlayerField) }
    \cup {RosterResponse(TRUE, TRUE, TRUE, p) : p \in PlayerFields}

\* the players.json document as fetched by the pages: the fetch or its JSON
\* decoding fails, or the document has or lacks a data array
PlayerDbs ==
    { [ok |-> FALSE, hasData |-> FALSE, data |-> <<>>],
      [ok |-> TRUE, hasData |-> FALSE, data |-> <<>>] }
    \cup {[ok |-> TRUE, hasData |-> TRUE, data |-> d] : d \in Directories}

\* the raw roster entries of a response (none when it has no player field)
RawRoster(resp) ==
    IF resp.ok /\ resp.rosters /\ resp.franchise /\ resp.player.shape # "undefined"
    THEN AsArray(resp.player) ELSE <<>>

\* playerDb.data || []
PlayerDatabase(db) == IF db.hasData THEN db.data ELSE <<>>

InitialTotals ==
    [contractYears |-> 0, salary |-> 0, hasContracts |-> FALSE, hasSalaries |-> FALSE]

Section(title, ps, showTotals) ==
    [title |-> title, players |-> ps, showTotals |-> showTotals]

\* dashboard page: loadPlayerData from its first fetch to its last setState
LoadPlayerData ==
    /\ "dashboard" \notin rosterDone
    /\ rosterDone' = rosterDone \cup {"dashboard"}
    /\ IF ~rosterData.ok \/ ~playerDb.ok
       THEN \* the catch block
            /\ players' = <<>>
            /\ rosterSections' = <<>>
            /\ UNCHANGED rosterTotals
       ELSE IF rosterData.rosters /\ rosterData.franchise
                /\ rosterData.player.shape # "undefined"
       THEN LET processedPlayers ==
                    ProcessedPlayers(AsArray(rosterData.player), PlayerDatabase(playerDb))
                sortedActiveRoster == sortByPosition(BucketOf(processedPlayers, "active"))
                sortedIrRoster     == sortByPosition(BucketOf(processedPlayers, "ir"))
                sortedTaxiRoster   == sortByPosition(BucketOf(processedPlayers, "taxi"))
            IN  /\ players' = processedPlayers
                /\ rosterSections' =
                      << Section("ACTIVE ROSTER", sortedActiveRoster, TRUE),
                         Section("INJURED RESERVE", sortedIrRoster, FALSE),
                         Section("TAXI SQUAD", sortedTaxiRoster, FALSE) >>
                /\ rosterTotals' =
                      [contractYears |-> TotalContractYears(sortedActiveRoster),
                       salary        |-> TotalSalary(sortedActiveRoster),
                       hasContracts  |-> HasContracts(processedPlayers),
                       hasSalaries   |-> HasSalaries(processedPlayers)]
       ELSE /\ players' = <<>>
            /\ rosterSections' = <<>>
            /\ UNCHANGED rosterTotals
    /\ UNCHANGED <<rosterData, playerDb, leagueRoster, apiRoster>>
    \* no branch of loadPlayerData calls setError
    /\ UNCHANGED <<dashboardError, apiThrown>>
    /\ UNCHANGED <<cacheVars, clientVars, authVars, moreVars>>
\* league page: what fetchAllRosters builds for one franchise of the response
FranchiseRoster(player, db) ==
    LET rosterPlayers == IF player.shape # "undefined" THEN AsArray(player) ELSE <<>>
        processedPlayers == ProcessedPlayers(rosterPlayers, db)
        activeRoster == BucketOf(processedPlayers, "active")
        irRoster     == BucketOf(processedPlayers, "ir")
        taxiRoster   == BucketOf(processedPlayers, "taxi")
    IN  [franchiseId |-> "0001",
         players |-> sortByPosition(activeRoster) \o sortByPosition(irRoster)
                        \o sortByPosition(taxiRoster),
         totals  |-> [contractYears |-> TotalContractYears(activeRoster),
                      salary        |-> TotalSalary(activeRoster),
                      hasContracts  |-> HasContracts(activeRoster),
                      hasSalaries   |-> HasSalaries(activeRoster)]]

\* league page: fetchAllRosters; the league response is drawn here, the
\* rosters response and players.json are the ones the dashboard sees
FetchAllRosters ==
    /\ "league" \notin rosterDone
    /\ rosterDone' = rosterDone \cup {"league"}
    /\ \E league \in {"httpError", "noFranchises", "ok"} :
         IF league = "httpError"
         THEN leagueRoster' = [rosters |-> <<>>, error |-> "Failed to fetch league data"]
         ELSE IF ~rosterData.ok
         THEN leagueRoster' = [rosters |-> <<>>, error |-> "Failed to fetch rosters"]
         ELSE IF ~playerDb.ok
         THEN leagueRoster' = [rosters |-> <<>>, error |-> "Failed to load rosters"]
         ELSE IF rosterData.rosters /\ league = "ok"
         THEN leagueRoster' =
                [rosters |-> IF rosterData.franchise
                             THEN <<FranchiseRoster(rosterData.player,
                                                    PlayerDatabase(playerDb))>>
                             ELSE <<>>,
                 error |-> ""]
         ELSE leagueRoster' = [rosters |-> <<>>, error |-> ""]
    /\ UNCHANGED <<rosterData, playerDb, players, rosterSections, rosterTotals, apiRoster>>
    /\ UNCHANGED <<dashboardError, apiThrown>>
    /\ UNCHANGED <<cacheVars, clientVars, authVars, moreVars>>

\* the needles of determinePlayerStatus and mapPlayerStatus that
\* mflStatus.toLowerCase() includes, for the status tokens upstream sends
LowerIncludes(status) ==
    CASE status = "TAXI_SQUAD"      -> {"taxi"}
      [] status = "INJURED_RESERVE" -> {"injured"}
      [] status = "IR"              -> {"ir"}
      [] OTHER                      -> {}

determinePlayerStatus(mflStatus) ==
    IF ~TruthyStr(mflStatus) THEN "bench"
    ELSE IF LowerIncludes(mflStatus) \cap {"starter", "active"} # {} THEN "starter"
    ELSE IF LowerIncludes(mflStatus) \cap {"ir", "injured"} # {} THEN "ir"
    ELSE IF "taxi" \in LowerIncludes(mflStatus) THEN "taxi"
    ELSE "bench"

mapPlayerStatus(mflStatus) ==
    IF ~TruthyStr(mflStatus) THEN "active"
    ELSE IF LowerIncludes(mflStatus) \cap {"injured", "ir", "out"} # {} THEN "injured"
    ELSE IF "bye" \in LowerIncludes(mflStatus) THEN "bye"
    ELSE "active"

\* the object processRosterData's players.map callback returns
ApiProject(e, db) ==
    LET i == FindById(db, e.id) IN
    [id             |-> e.id,
     name           |-> FieldOr(db, i, "name", "Unknown Player"),
     position       |-> FieldOr(db, i, "position", "UNK"),
     team           |-> FieldOr(db, i, "team", "FA"),
     status         |-> mapPlayerStatus(e.status),
     rosterStatus   |-> IF e.status = "TAXI_SQUAD" THEN "taxi"
                        ELSE determinePlayerStatus(e.status),
     salary         |-> ProjSalary(e),
     contractYears  |-> ProjContractYears(e),
     contractStatus |-> ProjContractStatus(e)]

\* MFLApiClient.processRosterData on a response makeRequest returned
processRosterData(response, db) ==
    IF ~(response.rosters /\ response.franchise) THEN <<>>
    ELSE IF response.player.shape = "undefined" THEN <<>>
    ELSE LET ps == AsArray(response.player)
             playerDatabase == IF db.ok /\ db.hasData THEN db.data ELSE <<>>
         IN  [i \in 1..Len(ps) |-> ApiProject(ps[i], playerDatabase)]

\* MFLApiClient.fetchRoster from the settling of its makeRequest on: a
\* failed request rejects the call, a response goes to processRosterData
ProcessRosterData ==
    /\ "api" \notin rosterDone
    /\ rosterDone' = rosterDone \cup {"api"}
    /\ IF rosterData.ok
       THEN /\ apiRoster' = processRosterData(rosterData, playerDb)
            /\ UNCHANGED apiThrown
       ELSE /\ apiThrown' = "SERVER_ERROR"
            /\ UNCHANGED apiRoster
    /\ UNCHANGED <<rosterData, playerDb, players, rosterSections, rosterTotals,
                   leagueRoster, dashboardError>>
    /\ UNCHANGED <<cacheVars, clientVars, authVars, moreVars>>

(***************************************************************************)
(* Initial values of the components                                        *)
(***************************************************************************)
RosterIdle ==
    /\ players = <<>>
    /\ rosterSections = <<>>
    /\ rosterTotals = InitialTotals
    /\ leagueRoster = [rosters |-> <<>>, error |-> ""]
    /\ apiRoster = <<>>
    /\ rosterDone = {}
    /\ dashboardError = ""
    /\ apiThrown = ""

InitRoster ==
    /\ rosterData \in RosterResponses
    /\ playerDb \in PlayerDbs
    /\ RosterIdle

(***************************************************************************)
(* CacheManager (the players.json collection)                              *)
(***************************************************************************)
MaxItems == 2

\* a JSON value in a field of a cached item: a string (its characters), or
\* something that is not a string
Str(chars) == [t |-> "string", s |-> chars]
NotAString == [t |-> "undefined", s |-> <<>>]
ANumber    == [t |-> "number", s |-> <<>>]

Whitespace == {" ", "\t", "\n"}

\* String.prototype.trim
RECURSIVE TrimStart(_)
TrimStart(chars) ==
    IF chars # <<>> /\ Head(chars) \in Whitespace THEN TrimStart(Tail(chars)) ELSE chars
RECURSIVE TrimEnd(_)
TrimEnd(chars) ==
    IF chars # <<>> /\ chars[Len(chars)] \in Whitespace
    THEN TrimEnd(SubSeq(chars, 1, Len(chars) - 1)) ELSE chars
Trim(chars) == TrimEnd(TrimStart(chars))

\* an element of the data array: an object with the four fields, the JSON
\* null, an array, or a primitive
Obj(id, name, position, team) ==
    [type |-> "object", id |-> id, name |-> name, position |-> position, team |-> team]
JsonNull  == [type |-> "null", id |-> NotAString, name |-> NotAString,
              position |-> NotAString, team |-> NotAString]
JsonArray == [type |-> "array", id |-> NotAString, name |-> NotAString,
              position |-> NotAString, team |-> NotAString]
JsonPrim  == [type |-> "number", id |-> NotAString, name |-> NotAString,
              position |-> NotAString, team |-> NotAString]

\* typeof x === 'object' holds of objects, arrays and null
TypeofObject(x) == x.type \in {"object", "array", "null"}

\* CacheManager.validatePlayer: "true", "false", or "throws" for the
\* TypeError of reading a property of null
validatePlayer(player) ==
    IF ~TypeofObject(player) THEN "false"
    ELSE IF player.type = "null" THEN "throws"
    ELSE IF /\ player.id.t = "string"
            /\ player.name.t = "string"
            /\ player.position.t = "string"
            /\ player.team.t = "string"
            /\ Len(Trim(player.id.s)) > 0
            /\ Len(Trim(player.name.s)) > 0
            /\ Len(Trim(player.position.s)) > 0
            /\ Len(Trim(player.team.s)) > 0
         THEN "true" ELSE "false"

Items ==
    { Obj(Str(<<"0","5","3","1">>), Str(<<"A","l">>), Str(<<"R","B">>), Str(<<"K","C">>)),
      Obj(Str(<<"9">>), Str(<<" ","B"," ">>), Str(<<"Q","B">>), Str(<<"F","A">>)),
      Obj(Str(<<"7">>), Str(<<" ","\t">>), Str(<<"K">>), Str(<<"S","F">>)),
      Obj(ANumber, Str(<<"D">>), Str(<<"W","R">>), NotAString),
      JsonNull, JsonPrim }

\* the content of the backing file: absent, not JSON, or a JSON document with
\* its top-level kind, its metadata and its data
NoData       == [shape |-> "absent", val |-> <<>>]
FalsyData    == [shape |-> "falsy", val |-> <<>>]
NonArrayData == [shape |-> "other", val |-> <<>>]
ArrayData(items) == [shape |-> "array", val |-> items]

NoMetadata     == [shape |-> "absent", lastUpdated |-> 0]
NullMetadata   == [shape |-> "null", lastUpdated |-> 0]
Metadata(t)    == [shape |-> "object", lastUpdated |-> t]

FileOf(exists, json, metadata, data) ==
    [exists |-> exists, json |-> json, metadata |-> metadata, data |-> data]
MissingFile   == FileOf(FALSE, "none", NoMetadata, NoData)
MalformedFile == FileOf(TRUE, "invalid", NoMetadata, NoData)
NullDocument  == FileOf(TRUE, "null", NoMetadata, NoData)
PrimDocument  == FileOf(TRUE, "number", NoMetadata, NoData)
Document(metadata, data) == FileOf(TRUE, "object", metadata, data)

Envelopes ==
    {Document(Metadata(1700000000), ArrayData(items)) : items \in SeqsUpTo(Items, MaxItems)}

BrokenFiles ==
    { MissingFile, MalformedFile, NullDocument, PrimDocument,
      Document(NoMetadata, NoData),
      Document(NoMetadata, NonArrayData),
      Document(NoMetadata, ArrayData(<<>>)),
      Document(NullMetadata, ArrayData(<<>>)),
      Document(Metadata(1700000000), NoData),
      Document(Metadata(1700000000), FalsyData),
      Document(Metadata(1700000000), NonArrayData) }

\* envelopes that differ in their lastUpdated stamp (seconds since the epoch)
Stamps == {0, 1700000000, 1700003600}
StampedFiles == {Document(Metadata(t), ArrayData(<<>>)) : t \in Stamps}

Files == BrokenFiles \cup Envelopes \cup StampedFiles

\* CacheManager.readCacheFile: the parsed document, or the error it throws
readCacheFile(f) ==
    IF f.json = "invalid" THEN [threw |-> TRUE, message |-> "Invalid JSON in cache file"]
    ELSE IF f.json = "null" THEN [threw |-> TRUE, message |-> "TypeError"]
    ELSE IF f.json # "object" \/ f.metadata.shape # "object"
            \/ f.data.shape \in {"absent", "falsy"}
    THEN [threw |-> TRUE,
          message |-> "Invalid cache file structure: missing metadata or data"]
    ELSE [threw |-> FALSE, message |-> ""]

\* what a CacheManager call returns or throws
Returned(items, fromMemory) ==
    [kind |-> "array", items |-> items, fromMemory |-> fromMemory,
     message |-> "", fileName |-> ""]
Threw(fileName, message) ==
    [kind |-> "error", items |-> <<>>, fromMemory |-> FALSE,
     message |-> message, fileName |-> fileName]
NoReturn ==
    [kind |-> "void", items |-> <<>>, fromMemory |-> FALSE,
     message |-> "", fileName |-> ""]

NoEntry == [has |-> FALSE, val |-> <<>>]
Entry(items) == [has |-> TRUE, val |-> items]

\* a read that answers a file it cannot load with an empty array
EmptyOnFailure(fileName, f, memory) ==
    IF memory.has THEN Returned(memory.val, TRUE)
    ELSE IF ~f.exists \/ readCacheFile(f).threw \/ f.data.shape # "array"
            \/ (\E i \in 1..Len(f.data.val) : validatePlayer(f.data.val[i]) = "throws")
    THEN Returned(<<>>, FALSE)
    ELSE Returned(SelectSeq(f.data.val, LAMBDA x : validatePlayer(x) = "true"), FALSE)

\* a read that goes to the file even when the memory tier holds a copy
AlwaysReadFile(fileName, f, memory) ==
    IF ~f.exists THEN Threw(fileName, "Cache file not found")
    ELSE IF readCacheFile(f).threw THEN Threw(fileName, readCacheFile(f).message)
    ELSE IF f.data.shape # "array"
    THEN Threw(fileName, "Invalid cache structure: data is not an array")
    ELSE IF \E i \in 1..Len(f.data.val) : validatePlayer(f.data.val[i]) = "throws"
    THEN Threw(fileName, "TypeError")
    ELSE Returned(SelectSeq(f.data.val, LAMBDA x : validatePlayer(x) = "true"), FALSE)

\* CacheManager.getCachedData(fileName, validatePlayer): what it returns or throws
getCachedData(fileName, f, memory) ==
    IF memory.has THEN Returned(memory.val, TRUE)
    ELSE IF ~f.exists THEN Threw(fileName, "Cache file not found")
    ELSE IF readCacheFile(f).threw THEN Threw(fileName, readCacheFile(f).message)
    ELSE IF f.data.shape # "array"
    THEN Threw(fileName, "Invalid cache structure: data is not an array")
    ELSE IF \E i \in 1..Len(f.data.val) : validatePlayer(f.data.val[i]) = "throws"
    THEN Threw(fileName, "TypeError")
    ELSE Returned(SelectSeq(f.data.val, LAMBDA x : validatePlayer(x) = "true"), FALSE)

\* a read that memoizes whatever it ends with, an empty list for a failure
MemoizeFailures ==
    LET ret == getCachedData("players.json", file, cache) IN
    /\ cacheRet' = ret
    /\ cache' = IF ret.fromMemory THEN cache ELSE Entry(ret.items)
    /\ cacheOp' = "getPlayers"
    /\ UNCHANGED <<file, maxAge, clock, stale>>
    /\ UNCHANGED <<rosterVars, clientVars, authVars, moreVars>>

\* CacheManager.getPlayers: the read, and the memory tier it leaves behind
GetPlayers ==
    LET ret == getCachedData("players.json", file, cache) IN
    /\ cacheRet' = ret
    /\ cache' = IF ret.kind = "array" /\ ~ret.fromMemory THEN Entry(ret.items) ELSE cache
    /\ cacheOp' = "getPlayers"
    /\ UNCHANGED <<file, maxAge, clock, stale>>
    /\ UNCHANGED <<rosterVars, clientVars, authVars, moreVars>>

\* CacheManager.clearMemoryCache
ClearMemoryCache ==
    /\ cache' = NoEntry
    /\ cacheOp' = "clearMemoryCache"
    /\ cacheRet' = NoReturn
    /\ UNCHANGED <<file, maxAge, clock, stale>>
    /\ UNCHANGED <<rosterVars, clientVars, authVars, moreVars>>

\* the refresh pipeline (another process) rewrites or removes the file
RefreshWrites ==
    /\ \E f \in Files : file' = f
    /\ cacheOp' = "refresh"
    /\ cacheRet' = NoReturn
    /\ UNCHANGED <<cache, maxAge, clock, stale>>
    /\ UNCHANGED <<rosterVars, clientVars, authVars, moreVars>>

\* the values of Date.now() / 1000 at which the manager is called, and the
\* maxAge values it is configured with (24 hours is the default)
Times        == {1700000000, 1700003600, 1700090000}
DefaultMaxAge == 24 * 60 * 60
MaxAges      == {0, 3600, DefaultMaxAge, 2000000000}
StartTime    == CHOOSE t \in Times : \A u \in Times : t <= u

\* a staleness test that already counts an age equal to maxAge as stale
StaleAtMaxAge(f, nowSeconds, limit) ==
    IF ~f.exists THEN TRUE
    ELSE IF readCacheFile(f).threw THEN TRUE
    ELSE IF f.metadata.lastUpdated = 0 THEN TRUE
    ELSE nowSeconds - f.metadata.lastUpdated >= limit

\* CacheManager.isCacheStale(fileName) at the given time, for config.maxAge
isCacheStale(f, nowSeconds, limit) ==
    IF ~f.exists THEN TRUE
    ELSE IF readCacheFile(f).threw THEN TRUE
    ELSE IF f.metadata.lastUpdated = 0 THEN TRUE   \* !metadata?.lastUpdated
    ELSE nowSeconds - f.metadata.lastUpdated > limit

\* envelopes of a later refresh: a later stamp and one item
RewrittenFiles == {Document(Metadata(1700003600), ArrayData(<<x>>)) : x \in Items}

\* the refresh pipeline rewrites the file with another stamp, or the file
\* is removed or damaged
RefreshStamps ==
    /\ \E f \in StampedFiles \cup RewrittenFiles \cup BrokenFiles : file' = f
    /\ cacheOp' = "refresh"
    /\ cacheRet' = NoReturn
    /\ UNCHANGED <<cache, maxAge, clock, stale>>
    /\ UNCHANGED <<rosterVars, clientVars, authVars, moreVars>>

\* a staleness check that trusts a memoized collection
StaleFromMemory ==
    /\ stale' = IF cache.has THEN FALSE ELSE isCacheStale(file, clock, maxAge)
    /\ cacheOp' = "isCacheStale"
    /\ cacheRet' = NoReturn
    /\ UNCHANGED <<file, cache, maxAge, clock>>
    /\ UNCHANGED <<rosterVars, clientVars, authVars, moreVars>>

\* CacheManager.isCacheStale('players.json')
IsCacheStale ==
    /\ stale' = isCacheStale(file, clock, maxAge)
    /\ cacheOp' = "isCacheStale"
    /\ cacheRet' = NoReturn
    /\ UNCHANGED <<file, cache, maxAge, clock>>
    /\ UNCHANGED <<rosterVars, clientVars, authVars, moreVars>>

\* time passes
Elapse ==
    /\ \E t \in Times : t > clock /\ clock' = t
    /\ cacheOp' = "elapse"
    /\ cacheRet' = NoReturn
    /\ UNCHANGED <<file, cache, maxAge, stale>>
    /\ UNCHANGED <<rosterVars, clientVars, authVars, moreVars>>

CacheIdle ==
    /\ cache = NoEntry
    /\ cacheOp = "new"
    /\ cacheRet = NoReturn
    /\ stale = FALSE

InitCache ==
    /\ file \in Files
    /\ maxAge = DefaultMaxAge
    /\ clock = StartTime
    /\ CacheIdle

\* a manager constructed with any of the maxAge values, at any of the times
InitStale ==
    /\ file \in Files
    /\ maxAge \in MaxAges
    /\ clock \in Times
    /\ CacheIdle

(***************************************************************************)
(* MFLApiClient and the /api/mfl proxy route                               *)
(***************************************************************************)
MaxElements == 2

\* session tokens, as their characters: the empty one, a plain one, and one
\* with the three Base64 characters that need percent-encoding
Tokens == { <<>>, <<"A", "1">>, <<"+", "/", "=">> }

\* MFLApiClient.cookie and the like: undefined, or a string
NoToken  == [set |-> FALSE, val |-> <<>>]
Token(t) == [set |-> TRUE, val |-> t]

\* JS truthiness of a string-or-undefined token
TruthyToken(c) == c.set /\ c.val # <<>>

Unreserved == {"A", "B", "D", "F", "0", "1", "2", "3", "5", "-", "_", "."}

\* encodeURIComponent, character by character
EncodeChar(c) ==
    CASE c \in Unreserved -> <<c>>
      [] c = "+" -> <<"%", "2", "B">>
      [] c = "/" -> <<"%", "2", "F">>
      [] c = "=" -> <<"%", "3", "D">>
      [] c = " " -> <<"%", "2", "0">>
      [] c = "%" -> <<"%", "2", "5">>
RECURSIVE encodeURIComponent(_)
encodeURIComponent(chars) ==
    IF chars = <<>> THEN <<>>
    ELSE EncodeChar(Head(chars)) \o encodeURIComponent(Tail(chars))

\* URLSearchParams serialisation of a value: form encoding, a space as "+"
RECURSIVE FormEncode(_)
FormEncode(chars) ==
    IF chars = <<>> THEN <<>>
    ELSE (IF Head(chars) = " " THEN <<"+">> ELSE EncodeChar(Head(chars)))
            \o FormEncode(Tail(chars))

\* the character a percent escape stands for
Unescape(h, l) ==
    CASE h = "2" /\ l = "B" -> "+"
      [] h = "2" /\ l = "F" -> "/"
      [] h = "3" /\ l = "D" -> "="
      [] h = "2" /\ l = "0" -> " "
      [] h = "2" /\ l = "5" -> "%"

\* URLSearchParams parsing of a value: "+" is a space, then percent-decoding
RECURSIVE FormDecode(_)
FormDecode(chars) ==
    IF chars = <<>> THEN <<>>
    ELSE IF Head(chars) = "+" THEN <<" ">> \o FormDecode(Tail(chars))
    ELSE IF Head(chars) = "%" /\ Len(chars) >= 3
         THEN <<Unescape(chars[2], chars[3])>> \o FormDecode(SubSeq(chars, 4, Len(chars)))
    ELSE <<Head(chars)>> \o FormDecode(Tail(chars))

\* a cookie parameter written into the proxy URL as it is, without encoding
RawCookieParam(c) ==
    IF TruthyToken(c) THEN [set |-> TRUE, val |-> c.val] ELSE NoToken

\* the value of the proxy URL's cookie parameter, as makeRequest writes it:
\* the parameter is set only for a truthy this.cookie
ProxyCookieParam(c) ==
    IF TruthyToken(c) THEN [set |-> TRUE, val |-> FormEncode(c.val)] ELSE NoToken

\* a header, absent or with its value
NoHeader  == [present |-> FALSE, value |-> <<>>]
Header(v) == [present |-> TRUE, value |-> v]

\* a proxy that encodes the parameter as it arrived, without decoding it
DoubleEncoded(param) ==
    IF TruthyToken(param)
    THEN Header(<<"MFL_USER_ID=">> \o encodeURIComponent(param.val))
    ELSE NoHeader

\* handleMFLRequest: the Cookie header it sends upstream for the cookie
\* parameter of the request it received
ProxyCookieHeader(param) ==
    LET c == IF param.set THEN Token(FormDecode(param.val)) ELSE NoToken
    IN  IF TruthyToken(c)
        THEN Header(<<"MFL_USER_ID=">> \o encodeURIComponent(c.val))
        ELSE NoHeader

\* the elements of a login response text
Element(tag, token, body) == [tag |-> tag, token |-> token, body |-> body]
Elements ==
    {Element("status", Token(t), "OK") : t \in Tokens}
    \cup { Element("status", NoToken, "OK"),
           Element("status", NoToken, "Maintenance"),
           Element("error", NoToken, "Invalid username or password"),
           Element("error", NoToken, ""),
           Element("html", NoToken, "Invalid XML response") }
Texts == SeqsUpTo(Elements, MaxElements)

\* the reason phrase that goes with a status
StatusText(status) ==
    CASE status = 200 -> "OK"
      [] status = 201 -> "Created"
      [] status = 404 -> "Not Found"
      [] status = 429 -> "Too Many Requests"
      [] status = 500 -> "Internal Server Error"
      [] status = 503 -> "Service Unavailable"

\* what the upstream service does with a request: no answer (connection
\* failure), or a response with status, content type and body
\* a Retry-After response header, or MFLAPIError.retryAfter: absent, or seconds
NoRetryAfter  == [set |-> FALSE, seconds |-> 0]
RetryAfter(n) == [set |-> TRUE, seconds |-> n]

Reply(kind, status, ctype, validJson, text) ==
    [kind |-> kind, status |-> status, ctype |-> ctype,
     validJson |-> validJson, text |-> text, retryAfter |-> NoRetryAfter]
\* a response that also carries a Retry-After header
WithRetryAfter(reply, n) == [reply EXCEPT !.retryAfter = RetryAfter(n)]
NoReply == Reply("none", 0, "none", FALSE, <<>>)
PlainText == <<Element("html", NoToken, "Invalid XML response")>>
Replies ==
    {Reply("fail", 0, "none", FALSE, <<>>)}
    \cup {Reply("response", s, "application/json", TRUE, <<>>) : s \in {404, 429, 503}}
    \cup {Reply("response", s, "application/json; charset=utf-8", v, <<>>) :
            s \in {200, 201}, v \in BOOLEAN}
    \cup {Reply("response", 200, "none", FALSE, PlainText),
          Reply("response", 200, "text/xml", FALSE, PlainText)}
    \cup {WithRetryAfter(Reply("response", 429, "application/json", TRUE, <<>>), 30)}
\* the replies to a login also hold every response text
LoginReplies ==
    Replies \cup {Reply("response", 200, "text/xml", FALSE, t) : t \in Texts}

\* one request as the client's fetch sees it end: resolved with the proxy's
\* relay of a reply, aborted by the timeout, or rejected
Exchange(hop, reply) == [hop |-> hop, reply |-> reply]
Exchanges(replies) ==
    {Exchange("ok", r) : r \in replies}
        \cup {Exchange("abort", NoReply), Exchange("reject", NoReply)}

\* response.ok
IsOk(status) == status >= 200 /\ status <= 299

\* contentType?.includes('application/json')
IsJson(ctype) == ctype \in {"application/json", "application/json; charset=utf-8"}

\* handleMFLRequest: the response the proxy gives the client for the reply
\* it got from upstream
ProxyResponse(reply) ==
    IF reply.kind = "fail"
    THEN Reply("response", 500, "application/json", TRUE, <<>>)
    ELSE IF ~IsOk(reply.status)
    THEN Reply("response", reply.status, "application/json", TRUE, <<>>)
    ELSE IF IsJson(reply.ctype)
    THEN IF reply.validJson
         THEN Reply("response", 200, "application/json", TRUE, <<>>)
         ELSE Reply("response", 500, "application/json", TRUE, <<>>)
    ELSE Reply("response", 200, "text/xml", FALSE, reply.text)

\* what makeRequest returns or throws; no throw site passes MFLAPIError its
\* third argument, so retryAfter is undefined on every error
Outcome(kind, code, status, message, text) ==
    [kind |-> kind, code |-> code, status |-> status, message |-> message, text |-> text,
     retryAfter |-> NoRetryAfter]
NoOutcome == Outcome("none", "", 0, "", <<>>)

ServerErrorMessage(status) ==
    CASE status = 404 -> "HTTP 404: Not Found"
      [] status = 500 -> "HTTP 500: Internal Server Error"
      [] status = 503 -> "HTTP 503: Service Unavailable"
      [] OTHER        -> "HTTP error"

\* MFLApiClient.makeRequest from its fetch on: the fetch is aborted by the
\* timeout, rejects, or resolves with the proxy's response
Classify(hop, response) ==
    IF hop = "abort" THEN Outcome("error", "NETWORK_ERROR", 0, "Request timeout", <<>>)
    ELSE IF hop = "reject"
    THEN Outcome("error", "NETWORK_ERROR", 0, "Network error: Failed to fetch", <<>>)
    ELSE IF ~IsOk(response.status)
    THEN IF response.status = 429
         THEN Outcome("error", "RATE_LIMITED", 429, "API rate limit exceeded", <<>>)
         ELSE Outcome("error", "SERVER_ERROR", response.status,
                      ServerErrorMessage(response.status), <<>>)
    ELSE IF IsJson(response.ctype)
    THEN IF response.validJson THEN Outcome("json", "", response.status, "", <<>>)
         ELSE Outcome("error", "NETWORK_ERROR", 0, "Network error: Unexpected token", <<>>)
    ELSE Outcome("text", "", response.status, "", response.text)

\* a proxy whose POST branch replaces the header object by the two body
\* headers, losing User-Agent and Accept
PostHeadersReplaced(issued, method, host, command, cookieHeader, armedThen, reply) ==
    [issued |-> issued, method |-> method, host |-> host, command |-> command,
     userAgent |-> IF issued /\ method = "GET" THEN "MFLREWRITE" ELSE "",
     accept |-> IF issued /\ method = "GET" THEN "application/json" ELSE "",
     cookieHeader |-> cookieHeader, armed |-> armedThen, reply |-> reply]

\* the request the proxy issues upstream, with the token that was armed and
\* the reply upstream gave
Request(issued, method, host, command, cookieHeader, armedThen, reply) ==
    [issued |-> issued, method |-> method, host |-> host, command |-> command,
     userAgent |-> IF issued THEN "MFLREWRITE" ELSE "",
     accept |-> IF issued THEN "application/json" ELSE "",
     cookieHeader |-> cookieHeader, armed |-> armedThen, reply |-> reply]
NoRequest == Request(FALSE, "", "", "", NoHeader, NoToken, NoReply)

\* makeRequest end to end: the proxy is reached unless the fetch rejects,
\* issues the upstream request and relays upstream's reply
ProxyRequest(hop, method, host, command, reply) ==
    IF hop = "reject" THEN NoRequest
    ELSE Request(TRUE, method, host, command,
                 ProxyCookieHeader(ProxyCookieParam(cookie)), armed, reply)

\* the index of the first element of a text that satisfies P, 0 if none does
FirstIndex(text, P(_)) ==
    IF \E i \in 1..Len(text) : P(text[i])
    THEN CHOOSE i \in 1..Len(text) : P(text[i]) /\ \A j \in 1..(i-1) : ~P(text[j])
    ELSE 0

\* what a client operation returns: an AuthResult, a value, or a thrown error
AuthSuccess(t) ==
    [kind |-> "auth", success |-> TRUE, cookie |-> Token(t), error |-> "", code |-> ""]
AuthFailure(e) ==
    [kind |-> "auth", success |-> FALSE, cookie |-> NoToken, error |-> e, code |-> ""]
Value ==
    [kind |-> "value", success |-> FALSE, cookie |-> NoToken, error |-> "", code |-> ""]
Thrown(code, message) ==
    [kind |-> "thrown", success |-> FALSE, cookie |-> NoToken, error |-> message,
     code |-> code]
Void ==
    [kind |-> "void", success |-> FALSE, cookie |-> NoToken, error |-> "", code |-> ""]

\* a parse that looks for the error element before the success marker
ErrorFirst(out) ==
    IF out.kind = "error" THEN AuthFailure(out.message)
    ELSE IF out.kind = "text"
    THEN LET s == FirstIndex(out.text, LAMBDA e :
                      e.tag = "status" /\ e.token.set /\ e.body = "OK")
             r == FirstIndex(out.text, LAMBDA e : e.tag = "error")
             t == FirstIndex(out.text, LAMBDA e : e.tag = "status")
         IN  IF r # 0 THEN AuthFailure(out.text[r].body)
             ELSE IF s # 0 THEN AuthSuccess(out.text[s].token.val)
             ELSE IF t # 0 /\ out.text[t].body # "OK" THEN AuthFailure(out.text[t].body)
             ELSE AuthFailure("Invalid response from server")
    ELSE AuthFailure("Invalid response from server")

\* MFLApiClient.login from makeRequest's outcome on: the three regular
\* expressions, each matching at its first occurrence in the text
login(out) ==
    IF out.kind = "error" THEN AuthFailure(out.message)
    ELSE IF out.kind = "text"
    THEN LET successMatch == FirstIndex(out.text, LAMBDA e :
                                 e.tag = "status" /\ e.token.set /\ e.body = "OK")
             errorMatch == FirstIndex(out.text, LAMBDA e : e.tag = "error")
             statusErrorMatch == FirstIndex(out.text, LAMBDA e : e.tag = "status")
         IN  IF successMatch # 0 THEN AuthSuccess(out.text[successMatch].token.val)
             ELSE IF errorMatch # 0 THEN AuthFailure(out.text[errorMatch].body)
             ELSE IF statusErrorMatch # 0 /\ out.text[statusErrorMatch].body # "OK"
                  THEN AuthFailure(out.text[statusErrorMatch].body)
             ELSE AuthFailure("Invalid response from server")
    ELSE AuthFailure("Invalid response from server")

\* a login that forgets the stored cookie when it fails
ClearOnFailure(result, old) ==
    IF result.success THEN result.cookie ELSE NoToken

\* this.cookie after login: assigned in the success branch only
CookieAfterLogin(result, old) ==
    IF result.success THEN result.cookie ELSE old

\* MFLApiClient.login(username, password)
Login ==
    \E x \in Exchanges(LoginReplies) :
        LET out == Classify(x.hop, ProxyResponse(x.reply))
            result == login(out)
        IN  /\ sent' = ProxyRequest(x.hop, "POST", "api.myfantasyleague.com", "login",
                                    x.reply)
            /\ reqOutcome' = out
            /\ clientRet' = result
            /\ cookie' = CookieAfterLogin(result, cookie)
            /\ armed' = IF result.success THEN result.cookie ELSE armed
            /\ clientOp' = "login"
            /\ UNCHANGED <<rosterVars, cacheVars, authVars, moreVars>>

\* MFLApiClient.getPlayers(): an export request through makeRequest; the text
\* and JSON it gets are turned into a player list, an error is thrown on
GetPlayersRequest ==
    \E x \in Exchanges(Replies) :
        LET out == Classify(x.hop, ProxyResponse(x.reply))
        IN  /\ sent' = ProxyRequest(x.hop, "GET", "api.myfantasyleague.com", "export",
                                    x.reply)
            /\ reqOutcome' = out
            /\ clientRet' = IF out.kind = "error" THEN Thrown(out.code, out.message)
                            ELSE Value
            /\ clientOp' = "request"
            /\ UNCHANGED <<cookie, armed>>
            /\ UNCHANGED <<rosterVars, cacheVars, authVars, moreVars>>

\* MFLApiClient.setCookie(cookie)
SetCookie ==
    \E t \in Tokens :
        /\ cookie' = Token(t)
        /\ armed' = Token(t)
        /\ clientOp' = "setCookie"
        /\ clientRet' = Void
        /\ sent' = NoRequest
        /\ reqOutcome' = NoOutcome
        /\ UNCHANGED <<rosterVars, cacheVars, authVars, moreVars>>

\* MFLApiClient.clearCookie()
ClearCookie ==
    /\ cookie' = NoToken
    /\ armed' = NoToken
    /\ clientOp' = "clearCookie"
    /\ clientRet' = Void
    /\ sent' = NoRequest
    /\ reqOutcome' = NoOutcome
    /\ UNCHANGED <<rosterVars, cacheVars, authVars, moreVars>>

ClientIdle ==
    /\ cookie = NoToken
    /\ armed = NoToken
    /\ clientOp = "new"
    /\ clientRet = Void
    /\ sent = NoRequest
    /\ reqOutcome = NoOutcome

InitClient == ClientIdle

(***************************************************************************)
(* AuthProvider                                                            *)
(***************************************************************************)
MaxTicks   == 3
MaxPending == 1

SESSION_TIMEOUT == 24 * 60 * 60 * 1000
\* the clock moves in steps of twelve hours
TickMs == 12 * 60 * 60 * 1000

\* a User record, or null
NoUser == [set |-> FALSE, username |-> "", cookie |-> "", loginTime |-> 0]
UserOf(username, c, t) ==
    [set |-> TRUE, username |-> username, cookie |-> c, loginTime |-> t]

\* the cookies /api/auth/login hands out
SessionCookies == {"tokA", "tokB"}

\* mflApi.cookie: undefined, or a string
NoApiCookie  == [set |-> FALSE, val |-> ""]
ApiCookie(c) == [set |-> TRUE, val |-> c]

\* the mount effect: loadUserSession, and the first run of the [user] effect
\* with the initial user null
LoadUserSession ==
    /\ ~mounted
    /\ mounted' = TRUE
    /\ isLoading' = FALSE
    /\ apiCookie' = NoApiCookie
    /\ IF storage.set
       THEN IF now - storage.loginTime < SESSION_TIMEOUT
            THEN /\ user' = storage
                 /\ effectPending' = TRUE
                 /\ UNCHANGED storage
            ELSE /\ storage' = NoUser
                 /\ UNCHANGED <<user, effectPending>>
       ELSE UNCHANGED <<user, storage, effectPending>>
    /\ authOp' = "load"
    /\ UNCHANGED <<logins, now, saveFailed>>
    /\ UNCHANGED <<rosterVars, cacheVars, clientVars, moreVars>>

\* the [user] effect: hand the user's cookie to the client, or clear it
UserEffect ==
    /\ effectPending
    /\ effectPending' = FALSE
    /\ apiCookie' = IF user.set /\ user.cookie # "" THEN ApiCookie(user.cookie)
                    ELSE NoApiCookie
    /\ authOp' = "effect"
    /\ UNCHANGED <<user, isLoading, storage, mounted, logins, now, saveFailed>>
    /\ UNCHANGED <<rosterVars, cacheVars, clientVars, moreVars>>

\* login(username, password) up to its await of the fetch
LoginStart ==
    /\ mounted
    /\ logins < MaxPending
    /\ logins' = logins + 1
    /\ authOp' = "loginStart"
    /\ UNCHANGED <<user, isLoading, storage, apiCookie, effectPending, mounted, now,
                   saveFailed>>
    /\ UNCHANGED <<rosterVars, cacheVars, clientVars, moreVars>>

\* login(username, password) with a blank username or password: it throws
\* before its try block, so nothing is sent and logout() is not called
LoginRejectsBlank ==
    /\ mounted
    /\ authOp' = "loginInvalid"
    /\ UNCHANGED <<user, isLoading, storage, apiCookie, effectPending, mounted, logins, now,
                   saveFailed>>
    /\ UNCHANGED <<rosterVars, cacheVars, clientVars, moreVars>>

\* a login whose failure leaves the session as it was
FailureKeepsSession ==
    /\ logins > 0
    /\ logins' = logins - 1
    /\ \E result \in SessionCookies \cup {""} :
         IF result # ""
         THEN /\ user' = UserOf("owner", result, now)
              /\ \E saved \in BOOLEAN :
                   /\ storage' = IF saved THEN UserOf("owner", result, now) ELSE storage
                   /\ saveFailed' = ~saved
              /\ effectPending' = TRUE
              /\ UNCHANGED apiCookie
              /\ authOp' = "loginOk"
         ELSE /\ UNCHANGED <<user, storage, apiCookie, effectPending, saveFailed>>
              /\ authOp' = "loginFailed"
    /\ UNCHANGED <<isLoading, mounted, now>>
    /\ UNCHANGED <<rosterVars, cacheVars, clientVars, moreVars>>

\* login from the fetch's settling on: /api/auth/login answers with a cookie
\* (setUser, then saveUserSession, whose localStorage.setItem may throw and is
\* caught), or the call fails (rejected fetch, success false, no cookie) and
\* logs out
LoginSettles ==
    /\ logins > 0
    /\ logins' = logins - 1
    /\ \E result \in SessionCookies \cup {""} :
         IF result # ""
         THEN /\ user' = UserOf("owner", result, now)
              /\ \E saved \in BOOLEAN :
                   /\ storage' = IF saved THEN UserOf("owner", result, now) ELSE storage
                   /\ saveFailed' = ~saved
              /\ effectPending' = TRUE
              /\ UNCHANGED apiCookie
              /\ authOp' = "loginOk"
         ELSE /\ user' = NoUser
              /\ storage' = NoUser
              /\ saveFailed' = FALSE
              /\ apiCookie' = NoApiCookie
              /\ effectPending' = (effectPending \/ user.set)
              /\ authOp' = "loginFailed"
    /\ UNCHANGED <<isLoading, mounted, now>>
    /\ UNCHANGED <<rosterVars, cacheVars, clientVars, moreVars>>

\* a logout that leaves the stored session record in place
LogoutKeepsStorage ==
    /\ mounted
    /\ user' = NoUser
    /\ apiCookie' = NoApiCookie
    /\ effectPending' = (effectPending \/ user.set)
    /\ saveFailed' = FALSE
    /\ authOp' = "logout"
    /\ UNCHANGED <<storage, isLoading, mounted, logins, now>>
    /\ UNCHANGED <<rosterVars, cacheVars, clientVars, moreVars>>

\* logout()
Logout ==
    /\ mounted
    /\ user' = NoUser
    /\ storage' = NoUser
    /\ apiCookie' = NoApiCookie
    /\ effectPending' = (effectPending \/ user.set)
    /\ saveFailed' = FALSE
    /\ authOp' = "logout"
    /\ UNCHANGED <<isLoading, mounted, logins, now>>
    /\ UNCHANGED <<rosterVars, cacheVars, clientVars, moreVars>>

\* the page is loaded again: fresh provider state and a fresh client, local
\* storage as it was
Reload ==
    /\ mounted
    /\ user' = NoUser
    /\ isLoading' = TRUE
    /\ apiCookie' = NoApiCookie
    /\ effectPending' = FALSE
    /\ mounted' = FALSE
    /\ logins' = 0
    /\ saveFailed' = FALSE
    /\ authOp' = "reload"
    /\ UNCHANGED <<storage, now>>
    /\ UNCHANGED <<rosterVars, cacheVars, clientVars, moreVars>>

\* time passes
Tick ==
    /\ now < MaxTicks * TickMs
    /\ now' = now + TickMs
    /\ authOp' = "tick"
    /\ UNCHANGED <<user, isLoading, storage, apiCookie, effectPending, mounted, logins,
                   saveFailed>>
    /\ UNCHANGED <<rosterVars, cacheVars, clientVars, moreVars>>

AuthIdle ==
    /\ user = NoUser
    /\ isLoading = TRUE
    /\ storage = NoUser
    /\ apiCookie = NoApiCookie
    /\ effectPending = FALSE
    /\ mounted = FALSE
    /\ logins = 0
    /\ now = 0
    /\ authOp = "new"
    /\ saveFailed = FALSE

InitAuth == AuthIdle

(***************************************************************************)
(* MFLApiClient.buildUrl and the request a login puts on the wire          *)
(***************************************************************************)
MaxArgs == 2

\* MFLApiConfig: the constructor's defaults, overridden by its argument
Config(protocol, apiHost, currentYear) ==
    [userAgent |-> "MFLREWRITE", currentYear |-> currentYear, apiHost |-> apiHost,
     protocol |-> protocol]
DefaultConfig == Config("https", "api.myfantasyleague.com", 2025)
Configs ==
    {Config(p, h, y) : p \in {"https", "http"},
                       h \in {"api.myfantasyleague.com", "www44.myfantasyleague.com"},
                       y \in {2024, 2025}}

\* String(n) of a year
YearText(y) == IF y = 2025 THEN "2025" ELSE "2024"

\* the optional host argument: undefined, or a string (possibly empty)
NoHost     == [set |-> FALSE, val |-> ""]
HostArg(h) == [set |-> TRUE, val |-> h]
HostArgs == {NoHost, HostArg(""), HostArg("api.myfantasyleague.com")}

\* a property write the caller makes to build args; "1" is an integer-like
\* name, the others are ordinary names
Write(k, v) == [key |-> k, value |-> v]
ArgWrites ==
    {Write("TYPE", <<"A", " ", "B">>), Write("W", <<"1">>), Write("W", <<"3">>),
     Write("1", <<"1">>)}
\* what the caller does to build args: property writes, in order
Writings == SeqsUpTo(ArgWrites, MaxArgs)

\* whether a property name is an array index, and its number
IsIndexKey(k) == k \in {"0", "1"}
IndexOf(k) == IF k = "0" THEN 0 ELSE 1

\* a JS object as its own properties in the order Object.entries lists
\* them: array-index names ascending, then the other names in the order of
\* their first write; a write to an existing name replaces its value
PutProperty(obj, w) ==
    IF \E i \in 1..Len(obj) : obj[i].key = w.key
    THEN [i \in 1..Len(obj) |-> IF obj[i].key = w.key THEN w ELSE obj[i]]
    ELSE IF IsIndexKey(w.key)
    THEN LET before == Cardinality({i \in 1..Len(obj) :
                           IsIndexKey(obj[i].key) /\ IndexOf(obj[i].key) < IndexOf(w.key)})
         IN  SubSeq(obj, 1, before) \o <<w>> \o SubSeq(obj, before + 1, Len(obj))
    ELSE Append(obj, w)
RECURSIVE ObjectOf(_)
ObjectOf(writes) ==
    IF writes = <<>> THEN <<>>
    ELSE PutProperty(ObjectOf(SubSeq(writes, 1, Len(writes) - 1)), writes[Len(writes)])

\* a query string put together from the raw names and values
RECURSIVE RawQuery(_)
RawQuery(entries) ==
    IF entries = <<>> THEN <<>>
    ELSE LET e == entries[Len(entries)]
             front == RawQuery(SubSeq(entries, 1, Len(entries) - 1))
         IN  (IF front = <<>> THEN <<>> ELSE front \o <<"&">>) \o <<e.key, "=">> \o e.value

\* URLSearchParams.toString(): name=value pairs joined by "&", names and
\* values form-encoded; a text is a sequence of pieces (names, separators,
\* characters)
RECURSIVE QueryString(_)
QueryString(entries) ==
    IF entries = <<>> THEN <<>>
    ELSE LET e == entries[Len(entries)]
             front == QueryString(SubSeq(entries, 1, Len(entries) - 1))
         IN  (IF front = <<>> THEN <<>> ELSE front \o <<"&">>)
                 \o <<e.key, "=">> \o FormEncode(e.value)

\* MFLApiClient.buildUrl(command, args, host), args given as the object
BaseUrl(cfg, command, host) ==
    LET baseHost == IF host.set /\ host.val # "" THEN host.val ELSE cfg.apiHost
    IN  <<cfg.protocol, "://", baseHost, "/", YearText(cfg.currentYear), "/", command>>
\* a buildUrl that always takes the configured host
IgnoreHostArgument(cfg, command, args, host) ==
    LET baseUrl == BaseUrl(cfg, command, NoHost)
        queryString == QueryString(args)
    IN  IF queryString # <<>> THEN baseUrl \o <<"?">> \o queryString ELSE baseUrl
buildUrl(cfg, command, args, host) ==
    LET baseUrl == BaseUrl(cfg, command, host)
        queryString == QueryString(args)
    IN  IF queryString # <<>> THEN baseUrl \o <<"?">> \o queryString ELSE baseUrl

\* credentials a user may type
Credentials == { <<"A", "B">>, <<"A", " ", "1">>, <<"+", "/", "=">> }

\* new URL(url) in makeRequest: the host name and the first two path parts
ParseUrl(url) == [hostname |-> url[3], year |-> url[5], command |-> url[7]]

\* the request handleMFLRequest puts on the wire for a POST it received with
\* these host, year and command parameters and this body
NoUpstream == [issued |-> FALSE, method |-> "", url |-> <<>>, contentType |-> "",
               body |-> <<>>]
ProxyPost(host, year, command, body) ==
    [issued |-> TRUE, method |-> "POST",
     url |-> <<"https", "://", IF host # "" THEN host ELSE "api.myfantasyleague.com",
               "/", IF year # "" THEN year ELSE "2025", "/", command>>,
     contentType |-> "application/x-www-form-urlencoded",
     body |-> body]

\* the body login() writes
LoginBody(username, password) ==
    <<"USERNAME=">> \o encodeURIComponent(username)
        \o <<"&PASSWORD=">> \o encodeURIComponent(password) \o <<"&XML=1">>

\* MFLApiClient.login up to the request: buildUrl, makeRequest's proxy URL,
\* and the proxy's upstream POST
LoginUpstream(cfg, username, password) ==
    LET u == buildUrl(cfg, "login",
                      ObjectOf(<<Write("USERNAME", username), Write("PASSWORD", password),
                                 Write("XML", <<"1">>)>>),
                      HostArg("api.myfantasyleague.com"))
        parts == ParseUrl(u)
    IN  ProxyPost(parts.hostname, parts.year, parts.command,
                  LoginBody(username, password))

\* a call of buildUrl by one of the client's operations
BuildUrl ==
    \E command \in {"export", "login"}, w \in Writings, h \in HostArgs :
        /\ urlIn' = [command |-> command, writes |-> w, host |-> h,
                     username |-> <<>>, password |-> <<>>]
        /\ builtUrl' = buildUrl(config, command, ObjectOf(w), h)
        /\ upstream' = NoUpstream
        /\ urlOp' = "buildUrl"
        /\ UNCHANGED config
        /\ UNCHANGED <<rosterVars, cacheVars, clientVars, authVars, refreshVars, callVars>>

\* login(username, password) up to the moment the request is on the wire
LoginRequest ==
    \E username \in Credentials, password \in Credentials :
        /\ urlIn' = [command |-> "login", writes |-> <<>>,
                     host |-> HostArg("api.myfantasyleague.com"),
                     username |-> username, password |-> password]
        /\ builtUrl' = buildUrl(config, "login",
                                ObjectOf(<<Write("USERNAME", username),
                                           Write("PASSWORD", password),
                                           Write("XML", <<"1">>)>>),
                                HostArg("api.myfantasyleague.com"))
        /\ upstream' = LoginUpstream(config, username, password)
        /\ urlOp' = "login"
        /\ UNCHANGED config
        /\ UNCHANGED <<rosterVars, cacheVars, clientVars, authVars, refreshVars, callVars>>

UrlIdle ==
    /\ urlIn = [command |-> "", writes |-> <<>>, host |-> NoHost,
                username |-> <<>>, password |-> <<>>]
    /\ builtUrl = <<>>
    /\ upstream = NoUpstream
    /\ urlOp = "new"

\* new MFLApiClient(config)
InitUrl == config \in Configs /\ UrlIdle
OtherUrlIdle == config = DefaultConfig /\ UrlIdle

(***************************************************************************)
(* The refresh scripts: fetch-players and fetch-nfl-data                   *)
(***************************************************************************)
MaxRuns == 2

FileNames == {"players.json", "nfl-schedule.json", "nfl-teams.json"}

\* a file of the data directory: absent, or an envelope with its source, its
\* lastUpdated and the number of items of its data
Absent == [exists |-> FALSE, source |-> "", lastUpdated |-> 0, items |-> 0]
Envelope(source, lastUpdated, items) ==
    [exists |-> TRUE, source |-> source, lastUpdated |-> lastUpdated, items |-> items]

\* the data directory before the first run: each file absent or left by an
\* earlier refresh
EarlierFile(name) ==
    CASE name = "players.json" -> Envelope("MFL API - players endpoint", 0, 3)
      [] name = "nfl-schedule.json" -> Envelope("MFL API - nflSchedule endpoint", 0, 3)
      [] name = "nfl-teams.json" -> Envelope("Static NFL team data", 0, 32)
Disks == {d \in [FileNames -> {Absent} \cup {EarlierFile(n) : n \in FileNames}] :
             \A n \in FileNames : d[n] \in {Absent, EarlierFile(n)}}

\* what the upstream fetch and the transform give a script: the fetch
\* rejects, answers with a failed status or with a body that is not JSON,
\* or the transformed list has this many items
FetchFailures == {"reject", "status", "badjson"}
FetchResult(kind, items) == [kind |-> kind, items |-> items]
FetchResults ==
    {FetchResult(k, 0) : k \in FetchFailures} \cup {FetchResult("items", n) : n \in 0..2}

\* fetch-players main: the data directory after a run at time t
FetchPlayersMain(d, r, t) ==
    IF r.kind = "items"
    THEN IF r.items = 0 THEN d
         ELSE [d EXCEPT !["players.json"] =
                   Envelope("MFL API - players endpoint", t, r.items)]
    ELSE IF d["players.json"].exists THEN d
    ELSE [d EXCEPT !["players.json"] =
              Envelope("Fallback data - MFL API unavailable", t, 2)]

\* fetch-nfl-data main: the data directory after a run at time t
FetchNflDataMain(d, r, t) ==
    IF r.kind = "items"
    THEN [d EXCEPT !["nfl-schedule.json"] =
                       Envelope("MFL API - nflSchedule endpoint", t, r.items),
                   !["nfl-teams.json"] = Envelope("Static NFL team data", t, 32)]
    ELSE IF ~d["nfl-schedule.json"].exists \/ ~d["nfl-teams.json"].exists
    THEN [d EXCEPT !["nfl-schedule.json"] =
                       Envelope("Fallback data - MFL API unavailable", t, 1),
                   !["nfl-teams.json"] =
                       Envelope("Fallback data - Static team info", t, 32)]
    ELSE d

\* the exit code of a run
ExitCode(r) == IF r.kind = "items" THEN 0 ELSE 1

\* one run of fetch-players
RunFetchPlayers ==
    \E r \in FetchResults :
        /\ runs < MaxRuns
        /\ runs' = runs + 1
        /\ diskBefore' = disk
        /\ disk' = FetchPlayersMain(disk, r, runs + 1)
        /\ refreshRun' = [script |-> "fetch-players", result |-> r, exit |-> ExitCode(r)]
        /\ UNCHANGED <<rosterVars, cacheVars, clientVars, authVars, urlVars, callVars>>

\* one run of fetch-nfl-data
RunFetchNflData ==
    \E r \in FetchResults :
        /\ runs < MaxRuns
        /\ runs' = runs + 1
        /\ diskBefore' = disk
        /\ disk' = FetchNflDataMain(disk, r, runs + 1)
        /\ refreshRun' = [script |-> "fetch-nfl-data", result |-> r, exit |-> ExitCode(r)]
        /\ UNCHANGED <<rosterVars, cacheVars, clientVars, authVars, urlVars, callVars>>

NoRun == [script |-> "", result |-> FetchResult("", 0), exit |-> 0]
RefreshIdle ==
    /\ runs = 0
    /\ diskBefore = disk
    /\ refreshRun = NoRun
InitRefresh == disk \in Disks /\ RefreshIdle
OtherRefreshIdle == disk = [n \in FileNames |-> Absent] /\ RefreshIdle

(***************************************************************************)
(* MFLApiClient.fetchFranchiseInfo / fetchRoster / fetchStandings: calls   *)
(* that overlap on one client.  A call runs up to its fetch in one piece   *)
(* (nothing is awaited before it) and from the settling of the fetch       *)
(* through its finally block in another.                                   *)
(***************************************************************************)
MaxCalls == 2

FetchOps == {"fetchFranchiseInfo", "fetchRoster", "fetchStandings"}

\* the session token the client may hold, and the tokens callers pass
SessionToken == <<"B", "2">>
CallTokens   == { <<"A", "1">>, <<"+", "/", "=">> }

\* a call: not running, or awaiting its fetch with the cookie it saved and
\* the Cookie header of the request it issued
IdleCall ==
    [pc |-> "idle", op |-> "", arg |-> <<>>, original |-> NoToken, carried |-> NoHeader]
InFlight(op, arg, original, carried) ==
    [pc |-> "inflight", op |-> op, arg |-> arg, original |-> original,
     carried |-> carried]

\* a call that leaves a session cookie in place and sets its own only when
\* the client holds none
KeepSessionCookie(current, passed) ==
    IF TruthyToken(current) THEN current ELSE Token(passed)

\* this.cookie = cookie
TemporaryCookie(current, passed) == Token(passed)

\* the free slot a new call takes
FreeSlot == CHOOSE i \in 1..MaxCalls :
                calls[i].pc = "idle" /\ \A j \in 1..(i-1) : calls[j].pc # "idle"

\* a call from its start to its await: save this.cookie, set the passed
\* one, build the URL and issue the fetch through makeRequest
StartCall ==
    \E op \in FetchOps, c \in CallTokens :
        /\ \E i \in 1..MaxCalls : calls[i].pc = "idle"
        /\ LET temporary == TemporaryCookie(cookie, c)
           IN  /\ cookie' = temporary
               /\ calls' = [calls EXCEPT ![FreeSlot] =
                               InFlight(op, c, cookie,
                                        ProxyCookieHeader(ProxyCookieParam(temporary)))]
        /\ callOp' = "start"
        /\ callRet' = "none"
        /\ UNCHANGED <<cookie0, armed, clientOp, clientRet, sent, reqOutcome>>
        /\ UNCHANGED <<rosterVars, cacheVars, authVars, urlVars, refreshVars>>

\* a call from the settling of its fetch on: the response is processed or
\* the error passes through, and the finally block restores the saved cookie
SettleCall ==
    \E i \in 1..MaxCalls, outcome \in {"value", "thrown"} :
        /\ calls[i].pc = "inflight"
        /\ cookie' = calls[i].original
        /\ calls' = [calls EXCEPT ![i] = IdleCall]
        /\ callOp' = "settle"
        /\ callRet' = outcome
        /\ UNCHANGED <<cookie0, armed, clientOp, clientRet, sent, reqOutcome>>
        /\ UNCHANGED <<rosterVars, cacheVars, authVars, urlVars, refreshVars>>

CallsIdle ==
    /\ calls = [i \in 1..MaxCalls |-> IdleCall]
    /\ callOp = "new"
    /\ callRet = "none"
OtherCallsIdle == cookie0 = NoToken /\ CallsIdle

\* a client that holds no cookie or the session's, with no call running
InitCalls ==
    /\ cookie \in {NoToken, Token(SessionToken)}
    /\ cookie0 = cookie
    /\ armed = cookie
    /\ clientOp = "new"
    /\ clientRet = Void
    /\ sent = NoRequest
    /\ reqOutcome = NoOutcome
    /\ CallsIdle

(***************************************************************************)
(* The specifications                                                      *)
(***************************************************************************)
OtherRosterIdle ==
    /\ rosterData = RosterResponse(FALSE, FALSE, FALSE, NoPlayerField)
    /\ playerDb = [ok |-> FALSE, hasData |-> FALSE, data |-> <<>>]
    /\ RosterIdle
OtherCacheIdle ==
    file = MissingFile /\ maxAge = DefaultMaxAge /\ clock = StartTime /\ CacheIdle

MoreIdle == OtherUrlIdle /\ OtherRefreshIdle /\ OtherCallsIdle

RosterInit == InitRoster /\ OtherCacheIdle /\ ClientIdle /\ AuthIdle /\ MoreIdle
NextRoster == LoadPlayerData \/ FetchAllRosters \/ ProcessRosterData
SpecRoster == RosterInit /\ [][NextRoster]_vars

CacheInit == InitCache /\ OtherRosterIdle /\ ClientIdle /\ AuthIdle /\ MoreIdle
NextCache == GetPlayers \/ ClearMemoryCache \/ RefreshWrites \/ Elapse
SpecCache == CacheInit /\ [][NextCache]_vars

\* reads, clears, rewrites, the clock and staleness checks together
NextTiers == GetPlayers \/ ClearMemoryCache \/ RefreshStamps \/ Elapse \/ IsCacheStale
SpecTiers == CacheInit /\ [][NextTiers]_vars

\* reads of the cache beside requests of the client
NextMemo == GetPlayers \/ ClearMemoryCache \/ RefreshStamps \/ GetPlayersRequest
SpecMemo == CacheInit /\ [][NextMemo]_vars

StaleInit == InitStale /\ OtherRosterIdle /\ ClientIdle /\ AuthIdle /\ MoreIdle
NextStale == IsCacheStale \/ Elapse \/ RefreshWrites
SpecStale == StaleInit /\ [][NextStale]_vars

ClientInit == InitClient /\ OtherRosterIdle /\ OtherCacheIdle /\ AuthIdle /\ MoreIdle
NextClient == Login \/ GetPlayersRequest \/ SetCookie \/ ClearCookie
SpecClient == ClientInit /\ [][NextClient]_vars

AuthInit == InitAuth /\ OtherRosterIdle /\ OtherCacheIdle /\ ClientIdle /\ MoreIdle
NextAuth ==
    LoadUserSession \/ UserEffect \/ LoginStart \/ LoginRejectsBlank \/ LoginSettles
        \/ Logout \/ Reload \/ Tick
SpecAuth == AuthInit /\ [][NextAuth]_vars

UrlInit == InitUrl /\ OtherRosterIdle /\ OtherCacheIdle /\ ClientIdle /\ AuthIdle
               /\ OtherRefreshIdle /\ OtherCallsIdle
NextUrl == BuildUrl \/ LoginRequest
SpecUrl == UrlInit /\ [][NextUrl]_vars

RefreshInit == InitRefresh /\ OtherRosterIdle /\ OtherCacheIdle /\ ClientIdle /\ AuthIdle
                   /\ OtherUrlIdle /\ OtherCallsIdle
NextRefresh == RunFetchPlayers \/ RunFetchNflData
SpecRefresh == RefreshInit /\ [][NextRefresh]_vars

CallsInit == InitCalls /\ OtherRosterIdle /\ OtherCacheIdle /\ AuthIdle
                 /\ OtherUrlIdle /\ OtherRefreshIdle
NextCalls == StartCall \/ SettleCall
SpecCalls == CallsInit /\ [][NextCalls]_vars

\* the same calls on a client whose cookie is also set and cleared
NextLogout == StartCall \/ SettleCall \/ SetCookie \/ ClearCookie
SpecLogout == CallsInit /\ [][NextLogout]_vars


(***************************************************************************)
(* Properties                                                              *)
(***************************************************************************)
\* the least element of a non-empty set of numbers
Least(S) == CHOOSE n \in S : \A m \in S : n <= m

\* the projected list keeps the raw roster's length and ids, and an entry
\* the directory does not know carries the sentinel fields
Complete(raw, directory, projected) ==
    /\ Len(projected) = Len(raw)
    /\ \A i \in 1..Len(raw) :
        /\ projected[i].id = raw[i].id
        /\ (\A j \in 1..Len(directory) : directory[j].id # raw[i].id)
              => /\ projected[i].name = "Unknown Player"
                 /\ projected[i].position = "UNK"
                 /\ projected[i].team = "FA"

\* C1: once the dashboard load has settled on a fetched roster and a fetched
\* directory, and once processRosterData has returned, the projected list
\* has one entry per raw entry, the i-th with the i-th raw id, and every
\* entry whose id the directory lacks has name "Unknown Player", position
\* "UNK" and team "FA"; the league page's roster has as many players as the
\* raw roster.
C1_RosterCompleteness ==
    /\ ("dashboard" \in rosterDone /\ rosterData.ok /\ playerDb.ok)
          => Complete(RawRoster(rosterData), playerDb.data, players)
    /\ "api" \in rosterDone
          => Complete(RawRoster(rosterData), playerDb.data, apiRoster)
    /\ ("league" \in rosterDone /\ leagueRoster.rosters # <<>>)
          => Len(leagueRoster.rosters[1].players) = Len(RawRoster(rosterData))

\* C1 witness: the dashboard has projected a roster of several entries of
\* which one is in the directory and one is not
C1_Witness ==
    /\ "dashboard" \in rosterDone
    /\ Len(players) >= 2
    /\ \E i \in 1..Len(players) : players[i].name = "Unknown Player"
                                  /\ FindById(playerDb.data, players[i].id) = 0
    /\ \E i \in 1..Len(players) : players[i].name = "Example Player"

\* the players of the dashboard's section with the given title
SectionPlayers(title) ==
    LET i == CHOOSE k \in 1..Len(rosterSections) : rosterSections[k].title = title
    IN  rosterSections[i].players

\* C2: once the dashboard has built its sections, every projected player is
\* in exactly one of the active, injured-reserve and taxi sections, as often
\* as it is in the projected list, and the three sizes sum to the number of
\* raw entries; every player of the league page's roster has one of the
\* three statuses.
C2_BucketsPartition ==
    /\ ("dashboard" \in rosterDone /\ rosterSections # <<>>) =>
         LET a == SectionPlayers("ACTIVE ROSTER")
             r == SectionPlayers("INJURED RESERVE")
             t == SectionPlayers("TAXI SQUAD")
         IN  /\ Len(a) + Len(r) + Len(t) = Len(RawRoster(rosterData))
             /\ \A i \in 1..Len(players) :
                  LET p == players[i] IN
                  /\ Count(a, p) + Count(r, p) + Count(t, p) = Count(players, p)
                  /\ Cardinality({b \in {a, r, t} : Count(b, p) > 0}) = 1
    /\ ("league" \in rosterDone /\ leagueRoster.rosters # <<>>) =>
         \A i \in 1..Len(leagueRoster.rosters[1].players) :
            leagueRoster.rosters[1].players[i].rosterStatus \in {"active", "ir", "taxi"}

\* C2 witness: the dashboard has built three sections, none of them empty
C2_Witness ==
    /\ "dashboard" \in rosterDone
    /\ rosterSections # <<>>
    /\ \A k \in 1..Len(rosterSections) : rosterSections[k].players # <<>>

\* a backing file the read cannot load: missing, not JSON, without a
\* metadata object, or with data that is not an array
Unreadable(f) ==
    \/ ~f.exists
    \/ f.json # "object"
    \/ f.metadata.shape # "object"
    \/ f.data.shape # "array"

\* C3 as stated: whenever getPlayers has just been called on an unreadable
\* file, it has failed with an error naming players.json.
C3_AlwaysFails ==
    (cacheOp = "getPlayers" /\ Unreadable(file))
        => (cacheRet.kind = "error" /\ cacheRet.fileName = "players.json")

\* C3: a getPlayers call made while the memory tier holds no copy of the
\* collection and the backing file is unreadable fails with an error naming
\* players.json; it returns no array.
C3_FailsWhenNotMemoized ==
    [][(cacheOp' = "getPlayers" /\ ~cache.has /\ Unreadable(file))
          => (cacheRet'.kind = "error" /\ cacheRet'.fileName = "players.json")]_vars

\* C3 witness: a read of the file holding {} has failed
C3_Witness ==
    /\ cacheOp = "getPlayers"
    /\ file = Document(NoMetadata, NoData)
    /\ cacheRet.kind = "error"
    /\ ~cache.has

\* C4: a getPlayers call that read a structurally valid envelope (not the
\* memory tier) has returned exactly the items the validator accepts, in
\* their order, whatever the data array holds.
C4_RoundTrip ==
    (cacheOp = "getPlayers" /\ ~Unreadable(file) /\ ~cacheRet.fromMemory)
        => /\ cacheRet.kind = "array"
           /\ cacheRet.items = SelectSeq(file.data.val,
                                         LAMBDA x : validatePlayer(x) = "true")

\* C5: login always resolves to an AuthResult: success with a token, or
\* failure with a non-empty error string.
C5_LoginAlwaysResolves ==
    clientOp = "login"
        => /\ clientRet.kind = "auth"
           /\ clientRet.success => clientRet.cookie.set
           /\ ~clientRet.success => clientRet.error # ""

\* the indices of a text's elements of the three kinds
SuccessMarkers(text) ==
    {i \in 1..Len(text) : text[i].tag = "status" /\ text[i].token.set
                          /\ text[i].body = "OK"}
ErrorElements(text)  == {i \in 1..Len(text) : text[i].tag = "error"}
StatusElements(text) == {i \in 1..Len(text) : text[i].tag = "status"}
FailedStatuses(text) == {i \in StatusElements(text) : text[i].body # "OK"}

\* C6 as stated: the third pattern is any status element whose body is not OK.
C6_AnyFailedStatus ==
    (clientOp = "login" /\ reqOutcome.kind = "text") =>
        LET text == reqOutcome.text IN
        IF SuccessMarkers(text) # {}
        THEN clientRet = AuthSuccess(text[Least(SuccessMarkers(text))].token.val)
        ELSE IF ErrorElements(text) # {}
        THEN clientRet = AuthFailure(text[Least(ErrorElements(text))].body)
        ELSE IF FailedStatuses(text) # {}
        THEN clientRet = AuthFailure(text[Least(FailedStatuses(text))].body)
        ELSE clientRet = AuthFailure("Invalid response from server")

\* C6: login's result on a response text is decided by the first pattern
\* that matches, in this order: a status element with the token attribute
\* and body OK gives success with that token; an error element gives
\* failure with its text; the first status element of the text, when its
\* body is not OK, gives failure with that body; otherwise failure with the
\* generic invalid-response message.
C6_PatternOrder ==
    (clientOp = "login" /\ reqOutcome.kind = "text") =>
        LET text == reqOutcome.text IN
        IF SuccessMarkers(text) # {}
        THEN clientRet = AuthSuccess(text[Least(SuccessMarkers(text))].token.val)
        ELSE IF ErrorElements(text) # {}
        THEN clientRet = AuthFailure(text[Least(ErrorElements(text))].body)
        ELSE IF StatusElements(text) # {}
                /\ text[Least(StatusElements(text))].body # "OK"
        THEN clientRet = AuthFailure(text[Least(StatusElements(text))].body)
        ELSE clientRet = AuthFailure("Invalid response from server")

\* C6 witness: a login whose response text holds an error element ahead of
\* a success marker has succeeded
C6_Witness ==
    /\ clientOp = "login"
    /\ reqOutcome.kind = "text"
    /\ clientRet.success
    /\ ErrorElements(reqOutcome.text) # {}
    /\ Least(ErrorElements(reqOutcome.text)) < Least(SuccessMarkers(reqOutcome.text))

\* C7: a login step that returns success leaves the stored cookie equal to
\* the returned token; a login step that returns failure leaves the stored
\* cookie as it was.
C7_CookieChangesOnSuccessOnly ==
    [][clientOp' = "login"
          => IF clientRet'.success
             THEN cookie' = clientRet'.cookie
             ELSE cookie' = cookie /\ ~clientRet'.cookie.set]_vars

\* C7 witness: a login has failed on a client that holds a token
C7_Witness ==
    /\ clientOp = "login"
    /\ ~clientRet.success
    /\ cookie.set
    /\ cookie.val # <<>>

\* C8 as stated: a request issued while a token is armed carries the Cookie
\* header with the encoded token, and one issued while none is armed
\* carries no Cookie header.
C8_ArmedTokenSent ==
    sent.issued
        => sent.cookieHeader =
              IF sent.armed.set
              THEN Header(<<"MFL_USER_ID=">> \o encodeURIComponent(sent.armed.val))
              ELSE NoHeader

\* C8: a request issued while a non-empty token is armed carries a Cookie
\* header holding the percent-encoded token of the most recent successful
\* login or setCookie; a request issued before any token was armed, after
\* clearCookie, or while the armed token is the empty string carries no
\* Cookie header.
C8_NonEmptyTokenSent ==
    sent.issued
        => sent.cookieHeader =
              IF sent.armed.set /\ sent.armed.val # <<>>
              THEN Header(<<"MFL_USER_ID=">> \o encodeURIComponent(sent.armed.val))
              ELSE NoHeader

\* C8 witness: an export request has gone out with the Cookie header of a
\* token that needs percent-encoding
C8_Witness ==
    /\ clientOp = "request"
    /\ sent.issued
    /\ sent.armed = Token(<<"+", "/", "=">>)
    /\ sent.cookieHeader.present

\* C9: while the provider reports a user, the session is younger than 24
\* hours; right after logout no session is left in provider state, in local
\* storage or in the client.
C9_SessionWithinLifetime ==
    /\ user.set => now - user.loginTime < SESSION_TIMEOUT
    /\ authOp = "logout" => (~user.set /\ ~storage.set /\ ~apiCookie.set)

\* C10: a call's outcome follows from what upstream did: no answer or a
\* timeout gives NETWORK_ERROR, 429 gives RATE_LIMITED, another failed
\* status gives SERVER_ERROR with that status, a 2xx JSON response gives the
\* parsed JSON and any other 2xx response its text.
C10_OutcomeByResponse ==
    clientOp \in {"login", "request"} =>
        LET r == sent.reply
            o == reqOutcome
        IN  IF ~sent.issued \/ r.kind # "response"
            THEN o.kind = "error" /\ o.code = "NETWORK_ERROR"
            ELSE IF r.status = 429
            THEN o.kind = "error" /\ o.code = "RATE_LIMITED"
            ELSE IF ~IsOk(r.status)
            THEN o.kind = "error" /\ o.code = "SERVER_ERROR" /\ o.status = r.status
            ELSE IF IsJson(r.ctype)
            THEN o.kind = "json"
            ELSE o.kind = "text" /\ o.text = r.text

\* C11: a RATE_LIMITED error raised for a 429 response carries the
\* response's Retry-After value as retryAfter, and an undefined retryAfter
\* when the response has no such header.
C11_RetryAfterCarried ==
    (clientOp \in {"login", "request"} /\ reqOutcome.code = "RATE_LIMITED")
        => reqOutcome.retryAfter = sent.reply.retryAfter

\* a rosters load that failed: the request failed, or the response lacks
\* the rosters element or the franchise asked for
LoadFailed(resp) == ~resp.ok \/ ~resp.rosters \/ ~resp.franchise

\* C12: a roster load that failed is surfaced as an error: after the
\* dashboard load settled on a failed rosters request, a response without
\* the expected structure or a failed players.json fetch, the page's error
\* state is set; after fetchRoster settled on a failed request or a response
\* without the expected structure, the call has rejected.
C12_FailuresSurface ==
    /\ ("dashboard" \in rosterDone /\ (LoadFailed(rosterData) \/ ~playerDb.ok))
          => dashboardError # ""
    /\ ("api" \in rosterDone /\ LoadFailed(rosterData)) => apiThrown # ""

\* the rosterStatus rule: TAXI_SQUAD is taxi, INJURED_RESERVE and IR are ir,
\* anything else, a missing status included, is active
StatusRule(status) ==
    IF status = "TAXI_SQUAD" THEN "taxi"
    ELSE IF status \in {"INJURED_RESERVE", "IR"} THEN "ir"
    ELSE "active"

\* every entry of a projected list has the rosterStatus the rule gives its
\* raw entry
FollowsRule(raw, projected) ==
    /\ Len(projected) = Len(raw)
    /\ \A i \in 1..Len(raw) : projected[i].rosterStatus = StatusRule(raw[i].status)

\* how many entries of a list have the given rosterStatus
WithStatus(ps, st) == Cardinality({i \in 1..Len(ps) : ps[i].rosterStatus = st})

\* C13: the dashboard, the league page and fetchRoster all assign
\* rosterStatus by the one rule, and produce no other value.
C13_OneStatusRule ==
    LET raw == RawRoster(rosterData) IN
    /\ ("dashboard" \in rosterDone /\ rosterData.ok /\ playerDb.ok)
          => FollowsRule(raw, players)
    /\ ("league" \in rosterDone /\ leagueRoster.rosters # <<>>)
          => \A st \in {"active", "ir", "taxi"} :
                WithStatus(leagueRoster.rosters[1].players, st)
                   = Cardinality({i \in 1..Len(raw) : StatusRule(raw[i].status) = st})
    /\ ("api" \in rosterDone /\ rosterData.ok)
          => FollowsRule(raw, apiRoster)

\* the active-bucket players of a projected list
ActiveOnly(ps) == SelectSeq(ps, LAMBDA p : p.rosterStatus = "active")

\* some player of the list carries a salary / a contract-year or
\* contract-status value
SomeSalary(ps)   == \E i \in 1..Len(ps) : TruthyNum(ps[i].salary)
SomeContract(ps) ==
    \E i \in 1..Len(ps) :
        TruthyNum(ps[i].contractYears) \/ TruthyStr(ps[i].contractStatus)

\* C14: on the dashboard and on the league page, hasSalaries is true iff an
\* active-bucket player carries a salary and hasContracts is true iff an
\* active-bucket player carries a contract-year or contract-status value;
\* IR and taxi players turn neither flag on.
C14_LeagueTypeFromActive ==
    /\ ("dashboard" \in rosterDone /\ rosterSections # <<>>)
          => /\ rosterTotals.hasSalaries = SomeSalary(ActiveOnly(players))
             /\ rosterTotals.hasContracts = SomeContract(ActiveOnly(players))
    /\ ("league" \in rosterDone /\ leagueRoster.rosters # <<>>)
          => LET r == leagueRoster.rosters[1] IN
             /\ r.totals.hasSalaries = SomeSalary(ActiveOnly(r.players))
             /\ r.totals.hasContracts = SomeContract(ActiveOnly(r.players))

\* the value a number-or-undefined field adds to a total
Worth(x) == IF x.k = "num" THEN x.v ELSE 0

\* the sums of the salaries and of the contract years of a list of players
RECURSIVE SalarySum(_)
SalarySum(ps) == IF ps = <<>> THEN 0 ELSE Worth(Head(ps).salary) + SalarySum(Tail(ps))
RECURSIVE ContractYearSum(_)
ContractYearSum(ps) ==
    IF ps = <<>> THEN 0 ELSE Worth(Head(ps).contractYears) + ContractYearSum(Tail(ps))

\* C15: on the dashboard and on the league page the salary total and the
\* contract-years total are the sums over the active-bucket players; what
\* IR and taxi players carry adds nothing.
C15_TotalsFromActive ==
    /\ ("dashboard" \in rosterDone /\ rosterSections # <<>>)
          => /\ rosterTotals.salary = SalarySum(ActiveOnly(players))
             /\ rosterTotals.contractYears = ContractYearSum(ActiveOnly(players))
    /\ ("league" \in rosterDone /\ leagueRoster.rosters # <<>>)
          => LET r == leagueRoster.rosters[1] IN
             /\ r.totals.salary = SalarySum(ActiveOnly(r.players))
             /\ r.totals.contractYears = ContractYearSum(ActiveOnly(r.players))

\* C15 witness: the dashboard shows a positive salary total for a roster
\* that also holds an IR or taxi player with a salary
C15_Witness ==
    /\ "dashboard" \in rosterDone
    /\ rosterSections # <<>>
    /\ rosterTotals.salary > 0
    /\ rosterTotals.contractYears > 0
    /\ \E i \in 1..Len(players) :
          players[i].rosterStatus # "active" /\ TruthyNum(players[i].salary)

\* the rank of a position: QB < RB < WR < TE < K < DEF < every other one
PositionRank(position) ==
    CASE position = "QB"  -> 0
      [] position = "RB"  -> 1
      [] position = "WR"  -> 2
      [] position = "TE"  -> 3
      [] position = "K"   -> 4
      [] position = "DEF" -> 5
      [] OTHER            -> 6

\* p may stand ahead of q: lower position rank, or the same rank and a name
\* that does not compare after q's
MayPrecede(p, q) ==
    \/ PositionRank(p.position) < PositionRank(q.position)
    \/ /\ PositionRank(p.position) = PositionRank(q.position)
       /\ LocaleCompare(p.name, q.name) <= 0

\* a list is in the sorted order
InOrder(ps) == \A i, j \in 1..Len(ps) : i < j => MayPrecede(ps[i], ps[j])

\* two lists hold the same players, each as often
SamePlayers(ps, qs) ==
    /\ Len(ps) = Len(qs)
    /\ \A i \in 1..Len(ps) : Count(ps, ps[i]) = Count(qs, ps[i])

\* the players of a projected list with the given rosterStatus
OfStatus(ps, st) == SelectSeq(ps, LAMBDA p : p.rosterStatus = st)

\* C16: every section of the dashboard and every bucket of the league
\* page's roster is in the order of position rank, then name, and holds
\* exactly the players of the unsorted bucket.
C16_BucketsSorted ==
    /\ ("dashboard" \in rosterDone /\ rosterSections # <<>>) =>
          /\ \A k \in 1..Len(rosterSections) : InOrder(rosterSections[k].players)
          /\ SamePlayers(SectionPlayers("ACTIVE ROSTER"), OfStatus(players, "active"))
          /\ SamePlayers(SectionPlayers("INJURED RESERVE"), OfStatus(players, "ir"))
          /\ SamePlayers(SectionPlayers("TAXI SQUAD"), OfStatus(players, "taxi"))
    /\ ("league" \in rosterDone /\ leagueRoster.rosters # <<>>) =>
          LET ps  == leagueRoster.rosters[1].players
              raw == RawRoster(rosterData)
          IN  /\ \A st \in {"active", "ir", "taxi"} : InOrder(OfStatus(ps, st))
              /\ Len(ps) = Len(raw)
              /\ \A i \in 1..Len(raw) :
                    Cardinality({j \in 1..Len(ps) : ps[j].id = raw[i].id})
                       = Cardinality({j \in 1..Len(raw) : raw[j].id = raw[i].id})

\* C16 witness: the active section holds two players of one position whose
\* order the sort has changed
C16_Witness ==
    /\ "dashboard" \in rosterDone
    /\ rosterSections # <<>>
    /\ LET a == SectionPlayers("ACTIVE ROSTER") IN
       /\ Len(a) >= 2
       /\ a # OfStatus(players, "active")
       /\ a[1].position = a[2].position
       /\ a[1].name # a[2].name

\* a cache file readCacheFile can load: a JSON object with a metadata
\* object and data
Readable(f) ==
    /\ f.exists
    /\ f.json = "object"
    /\ f.metadata.shape = "object"
    /\ f.data.shape \in {"array", "other"}

\* C17 as stated: for a readable file with any lastUpdated t >= 0, the
\* staleness check has answered true exactly when maxAge < now - t.
C17_AnyStamp ==
    (cacheOp = "isCacheStale" /\ Readable(file) /\ file.metadata.lastUpdated >= 0)
        => stale = (maxAge < clock - file.metadata.lastUpdated)

\* C17: for a readable cache file with metadata.lastUpdated = t, t > 0, and
\* current time now in seconds, the staleness check returns false when
\* maxAge >= now - t and true when maxAge < now - t; a file whose
\* lastUpdated is 0 is stale whatever maxAge is.
C17_StaleByAge ==
    (cacheOp = "isCacheStale" /\ Readable(file))
        => IF file.metadata.lastUpdated > 0
           THEN stale = (maxAge < clock - file.metadata.lastUpdated)
           ELSE stale

\* C17 witness: a check of a file whose age equals maxAge has answered
\* that it is not stale
C17_Witness ==
    /\ cacheOp = "isCacheStale"
    /\ Readable(file)
    /\ file.metadata.lastUpdated > 0
    /\ clock - file.metadata.lastUpdated = maxAge
    /\ maxAge > 0
    /\ ~stale

\* C18: the memory tier never expires on its own.  A getPlayers call made
\* while the tier holds a copy returns that copy without reading the file
\* and leaves the tier as it is; no step other than clearMemoryCache (a
\* rewrite of the file and the passing of time included) changes a copy the
\* tier holds; a getPlayers call made while the tier is empty reads the
\* file: it fails, or returns the valid items of the file's current data.
C18_MemoryTierPersists ==
    [][/\ (cacheOp' = "getPlayers" /\ cache.has)
            => /\ cacheRet'.kind = "array"
               /\ cacheRet'.fromMemory
               /\ cacheRet'.items = cache.val
               /\ cache' = cache
       /\ (cache.has /\ cacheOp' # "clearMemoryCache") => cache' = cache
       /\ cacheOp' = "clearMemoryCache" => ~cache'.has
       /\ (cacheOp' = "getPlayers" /\ ~cache.has)
            => /\ ~cacheRet'.fromMemory
               /\ cacheRet'.kind \in {"array", "error"}
               /\ cacheRet'.kind = "array"
                    => /\ Readable(file)
                       /\ cacheRet'.items =
                            SelectSeq(file.data.val, LAMBDA x : validatePlayer(x) = "true")
                       /\ cache' = Entry(cacheRet'.items)]_vars

\* C18 witness: after time has passed and the file has been removed, a read
\* has still returned the memoized players
C18_Witness ==
    /\ cacheOp = "getPlayers"
    /\ cacheRet.kind = "array"
    /\ cacheRet.fromMemory
    /\ cacheRet.items # <<>>
    /\ ~file.exists
    /\ clock # StartTime

\* percent-decoding of a header value: every escape back to its character,
\* every other character (a "+" included) kept
RECURSIVE decodeURIComponent(_)
decodeURIComponent(chars) ==
    IF chars = <<>> THEN <<>>
    ELSE IF Head(chars) = "%" /\ Len(chars) >= 3
         THEN <<Unescape(chars[2], chars[3])>>
                  \o decodeURIComponent(SubSeq(chars, 4, Len(chars)))
    ELSE <<Head(chars)>> \o decodeURIComponent(Tail(chars))

\* the part of a Cookie header after "MFL_USER_ID="
CookieValue(h) == Tail(h.value)

C20_IdentifyingHeaders ==
    sent.issued
        => /\ sent.method \in {"GET", "POST"}
           /\ sent.userAgent = "MFLREWRITE"
           /\ sent.accept = "application/json"

\* C20 witness: a login POST went upstream without a Cookie header, upstream
\* did not answer, and the request carried both headers
C20_Witness ==
    /\ clientOp = "login"
    /\ sent.issued
    /\ sent.method = "POST"
    /\ ~sent.cookieHeader.present
    /\ sent.reply.kind = "fail"
    /\ sent.userAgent = "MFLREWRITE"

\* the index of a piece in a text, 0 if it is not there
PieceAt(text, piece) ==
    IF \E i \in 1..Len(text) : text[i] = piece
    THEN CHOOSE i \in 1..Len(text) : text[i] = piece /\ \A j \in 1..(i-1) : text[j] # piece
    ELSE 0

\* a percent-encoded text: unreserved characters and escapes only
IsEncoded(chars) == \A i \in 1..Len(chars) : chars[i] \in Unreserved \cup {"%"}

\* C21: every login puts on the wire a POST to
\* https://api.myfantasyleague.com/<year>/login, whatever protocol and host
\* the client is configured with, with a form-encoded body
\* USERNAME=<u>&PASSWORD=<p>&XML=1 in which <u> and <p> are percent-encoded
\* and decode to the credentials that were passed.
C21_LoginRequestShape ==
    urlOp = "login"
        => LET b == upstream.body
               p == PieceAt(b, "&PASSWORD=")
           IN  /\ upstream.issued
               /\ upstream.method = "POST"
               /\ upstream.url = <<"https", "://", "api.myfantasyleague.com", "/",
                                   YearText(config.currentYear), "/", "login">>
               /\ upstream.contentType = "application/x-www-form-urlencoded"
               /\ Head(b) = "USERNAME="
               /\ p > 1
               /\ b[Len(b)] = "&XML=1"
               /\ IsEncoded(SubSeq(b, 2, p - 1))
               /\ IsEncoded(SubSeq(b, p + 1, Len(b) - 1))
               /\ decodeURIComponent(SubSeq(b, 2, p - 1)) = urlIn.username
               /\ decodeURIComponent(SubSeq(b, p + 1, Len(b) - 1)) = urlIn.password

\* C21 witness: a client configured with http and a league host has logged
\* in with credentials that hold a space and the characters "+", "/", "="
C21_Witness ==
    /\ urlOp = "login"
    /\ config.protocol = "http"
    /\ config.apiHost = "www44.myfantasyleague.com"
    /\ urlIn.username = <<"A", " ", "1">>
    /\ urlIn.password = <<"+", "/", "=">>
    /\ upstream.issued

\* a text cut at every occurrence of a separator piece
RECURSIVE SplitAt(_, _)
SplitAt(text, sep) ==
    LET i == PieceAt(text, sep)
    IN  IF i = 0 THEN <<text>>
        ELSE <<SubSeq(text, 1, i - 1)>> \o SplitAt(SubSeq(text, i + 1, Len(text)), sep)

\* the names a caller wrote, the position of the first write of a name and
\* the value of its last write
WrittenKeys(w) == {w[i].key : i \in 1..Len(w)}
FirstWrite(w, k) == CHOOSE i \in 1..Len(w) : w[i].key = k /\ \A j \in 1..(i-1) : w[j].key # k
LastValue(w, k) ==
    w[CHOOSE i \in 1..Len(w) : w[i].key = k /\ \A j \in (i+1)..Len(w) : w[j].key # k].value

\* the pairs of the query of a built URL, one text per pair
QueryPairs(u) == IF Len(u) <= 8 THEN <<>> ELSE SplitAt(SubSeq(u, 9, Len(u)), "&")

\* the scheme, host, year and command of a built URL for the host rule given
UrlHead(hostGiven) ==
    <<config.protocol, "://", IF hostGiven THEN urlIn.host.val ELSE config.apiHost,
      "/", YearText(config.currentYear), "/", urlIn.command>>

\* the query holds every written name once, with its last value
\* form-encoded, and nothing follows the command when nothing was written
QueryComplete ==
    LET w == urlIn.writes
        pairs == QueryPairs(builtUrl)
    IN  /\ (w = <<>>) => Len(builtUrl) = 7
        /\ (w # <<>>) => Len(builtUrl) > 8 /\ builtUrl[8] = "?"
        /\ Len(pairs) = Cardinality(WrittenKeys(w))
        /\ {pairs[i][1] : i \in 1..Len(pairs)} = WrittenKeys(w)
        /\ \A i \in 1..Len(pairs) :
              LET v == SubSeq(pairs[i], 3, Len(pairs[i]))
              IN  /\ pairs[i][2] = "="
                  /\ \A c \in 1..Len(v) : v[c] \in Unreserved \cup {"%", "+"}
                  /\ FormDecode(v) = LastValue(w, pairs[i][1])

\* C22 as stated: the URL is protocol://(host if given, else the default
\* host)/year/command, followed by "?" and the pairs in the order the caller
\* wrote the names when some were written and by nothing when none was.
C22_InsertionOrder ==
    urlOp = "buildUrl"
        => /\ SubSeq(builtUrl, 1, 7) = UrlHead(urlIn.host.set)
           /\ QueryComplete
           /\ LET pairs == QueryPairs(builtUrl)
              IN  \A i, j \in 1..Len(pairs) :
                      i < j => FirstWrite(urlIn.writes, pairs[i][1])
                                   < FirstWrite(urlIn.writes, pairs[j][1])

\* the order Object.entries gives two names: an integer-like name before
\* any other, integer-like names by number, other names by first write
EntriesBefore(w, a, b) ==
    IF IsIndexKey(a) /\ IsIndexKey(b) THEN IndexOf(a) < IndexOf(b)
    ELSE IF IsIndexKey(a) \/ IsIndexKey(b) THEN IsIndexKey(a)
    ELSE FirstWrite(w, a) < FirstWrite(w, b)

UrlAsAmended ==
    /\ SubSeq(builtUrl, 1, 7) = UrlHead(urlIn.host.set /\ urlIn.host.val # "")
    /\ QueryComplete
    /\ LET pairs == QueryPairs(builtUrl)
       IN  \A i, j \in 1..Len(pairs) :
               i < j => EntriesBefore(urlIn.writes, pairs[i][1], pairs[j][1])

\* C22, amended: buildUrl yields protocol://(host if given and not empty,
\* else the configured host)/year/command, followed by "?" and one
\* form-encoded name=value pair per name of args, in the order the object
\* lists its names (integer-like names first, the others in the order of
\* their first write), and by nothing when args is empty; the call puts
\* nothing on the wire and leaves the client without a cookie as it was.
C22_ObjectOrder ==
    urlOp = "buildUrl"
        => UrlAsAmended /\ ~upstream.issued /\ cookie = NoToken /\ armed = NoToken

\* C22 witness: buildUrl has been called with an empty host and with args
\* written as W, TYPE, W again: the URL names the configured league host and
\* lists W once, first, with its last value
C22_Witness ==
    /\ urlOp = "buildUrl"
    /\ urlIn.host = HostArg("")
    /\ config.apiHost = "www44.myfantasyleague.com"
    /\ builtUrl[3] = "www44.myfantasyleague.com"
    /\ Len(urlIn.writes) = 2
    /\ urlIn.writes[1].key = "W"
    /\ urlIn.writes[2].key = "TYPE"
    /\ QueryPairs(builtUrl) = << <<"W", "=", "1">>, <<"TYPE", "=", "A", "+", "B">> >>

\* C23: after a run whose fetch failed, and after a fetch-players run that
\* found no players, every file that existed when the run started has the
\* content it had then, and a file that differs did not exist before and
\* holds fallback data.
C23_FailedRefreshPreserves ==
    (refreshRun.script # "" /\ (refreshRun.result.kind \in FetchFailures
         \/ (refreshRun.script = "fetch-players" /\ refreshRun.result.items = 0)))
        => \A n \in FileNames :
               /\ diskBefore[n].exists => disk[n] = diskBefore[n]
               /\ disk[n] # diskBefore[n]
                     => disk[n].source \in {"Fallback data - MFL API unavailable",
                                            "Fallback data - Static team info"}

\* no call is awaiting its fetch
AllSettled == \A i \in 1..MaxCalls : calls[i].pc = "idle"

\* C24: once every overlapping fetchFranchiseInfo, fetchRoster and
\* fetchStandings call has settled, by value or by error, the client's
\* stored cookie is the one it had before the first of them started.
C24_CookieRestored ==
    AllSettled => cookie = cookie0

\* C28: the request of every call that is awaiting its fetch carries the
\* Cookie header of the token passed to that call, whatever other calls
\* started or settled around it and whatever cookie the client held.
C28_OwnCookieCarried ==
    \A i \in 1..MaxCalls :
        calls[i].pc = "inflight"
            => /\ calls[i].carried
                      = Header(<<"MFL_USER_ID=">> \o encodeURIComponent(calls[i].arg))
               /\ \A j \in 1..MaxCalls :
                      (calls[j].pc = "inflight" /\ calls[j].arg # calls[i].arg)
                          => calls[j].carried # calls[i].carried

\* C28 witness: a client holding the session cookie has two calls in flight
\* with different tokens, the second started while the first was awaiting
C28_Witness ==
    /\ cookie0 = Token(SessionToken)
    /\ calls[1].pc = "inflight"
    /\ calls[2].pc = "inflight"
    /\ calls[1].arg = <<"A", "1">>
    /\ calls[2].arg = <<"+", "/", "=">>
    /\ calls[2].original = Token(<<"A", "1">>)
    /\ calls[2].carried = Header(<<"MFL_USER_ID=", "%", "2", "B", "%", "2", "F", "%", "3", "D">>)

\* C29: when clearCookie was the last of login, setCookie and clearCookie
\* to be called and every fetch call has settled, the client holds no
\* cookie and a request made now would carry no Cookie header.
C29_LogoutFinal ==
    (clientOp = "clearCookie" /\ AllSettled)
        => /\ cookie = NoToken
           /\ ProxyCookieHeader(ProxyCookieParam(cookie)) = NoHeader

\* what the file alone says about staleness at a time, for a max age
FileStale(f, t, limit) ==
    ~(Readable(f) /\ f.metadata.lastUpdated > 0 /\ t - f.metadata.lastUpdated <= limit)

\* C25: a staleness check answers from the backing file as it is now, the
\* max age and the current time alone, whether or not the collection is
\* memoized, and leaves the memory tier and the file as they are.
C25_StalenessFromFileOnly ==
    [][cacheOp' = "isCacheStale"
          => /\ stale' = FileStale(file, clock, maxAge)
             /\ cache' = cache
             /\ file' = file]_vars

\* C25 witness: players were memoized from a file that has since gone stale
\* and been rewritten; the check answers for the rewritten file (not stale)
\* while the memory tier still holds the older players
C25_Witness ==
    /\ cacheOp = "isCacheStale"
    /\ cache.has
    /\ cache.val # <<>>
    /\ file = Document(Metadata(1700003600), ArrayData(<<>>))
    /\ clock = 1700090000
    /\ ~stale

\* a file a read accepts, and the items the read keeps of it
GoodFile(f) ==
    /\ Readable(f)
    /\ f.data.shape = "array"
    /\ \A i \in 1..Len(f.data.val) : validatePlayer(f.data.val[i]) # "throws"
ValidItems(f) == SelectSeq(f.data.val, LAMBDA x : validatePlayer(x) = "true")

\* C26: the memory tier changes only when a read loads and validates the
\* file (it then holds the file's valid items) or when it is cleared.  A
\* read that fails leaves the tier empty, a request of the client, failed,
\* aborted or answered, leaves the tier and the file alone, and a read made
\* with an empty tier once the file is good returns that file's items.
C26_OnlyGoodReadsMemoize ==
    [][/\ (cacheOp' = "getPlayers" /\ cacheRet'.kind = "error")
            => (cache' = cache /\ ~cache'.has)
       /\ clientVars' # clientVars => (cache' = cache /\ file' = file)
       /\ cache' # cache
            => \/ /\ cacheOp' = "getPlayers"
                  /\ cacheRet'.kind = "array"
                  /\ GoodFile(file)
                  /\ cache' = Entry(ValidItems(file))
               \/ (cacheOp' = "clearMemoryCache" /\ ~cache'.has)
       /\ (cacheOp' = "getPlayers" /\ ~cache.has /\ GoodFile(file))
            => (cacheRet'.kind = "array" /\ cacheRet'.items = ValidItems(file))]_vars

\* C26 witness: after a request of the client was aborted by its timeout
\* and the file was rewritten, a read has loaded the rewritten file's player
C26_Witness ==
    /\ cacheOp = "getPlayers"
    /\ cacheRet.kind = "array"
    /\ ~cacheRet.fromMemory
    /\ cacheRet.items # <<>>
    /\ file \in RewrittenFiles
    /\ cache = Entry(cacheRet.items)
    /\ reqOutcome.kind = "error"
    /\ reqOutcome.message = "Request timeout"

\* no copy of the session is left
SessionCleared == ~user.set /\ ~storage.set /\ ~apiCookie.set

\* C27 as stated: right after any rejection of login, the user is null, the
\* stored session record is gone and the client's cookie is cleared.
C27_AnyRejectionClears ==
    authOp \in {"loginFailed", "loginInvalid"} => SessionCleared

\* C27, amended: a login that rejects after its request was sent (rejected
\* fetch, unreadable reply, unsuccessful result) leaves the user null, the
\* stored session record removed and the client's cookie cleared, also when
\* a session existed before; a login rejected for a blank username or
\* password leaves all three as they were.
C27_FailedRequestClears ==
    [][/\ authOp' = "loginFailed" => SessionCleared'
       /\ authOp' = "loginInvalid" => UNCHANGED <<user, storage, apiCookie>>]_vars

\* C27 witness: a login has failed while a user was signed in (the [user]
\* effect is scheduled for the change to null) and no copy is left
C27_Witness ==
    /\ authOp = "loginFailed"
    /\ effectPending
    /\ SessionCleared

\* no login is awaiting its reply, the mount effect has run and no [user]
\* effect is scheduled
Quiescent == mounted /\ ~effectPending /\ logins = 0

\* the user and the client's cookie agree
UserAndCookieAgree ==
    /\ user.set = apiCookie.set
    /\ user.set => apiCookie.val = user.cookie

\* the user and the stored session record agree
UserAndStorageAgree ==
    /\ user.set = storage.set
    /\ user.set => storage.cookie = user.cookie

=============================================================================
